---- MODULE Spec2Model ----
(***************************************************************************)
(* hyprlauncher: the application index (APP_CACHE), its rebuild from the   *)
(* desktop-entry files and PATH, the three search modes, the heatmap file  *)
(* and the launch path, modelled from src/src/launcher.rs, search.rs and   *)
(* ui.rs.                                                                  *)
(*                                                                         *)
(* Strings are TLA+ strings; a character is a string of length 1.          *)
(* An Option<T> is a set: {} is None, {x} is Some(x).                      *)
(***************************************************************************)
EXTENDS Integers, Sequences, FiniteSets, TLC

VARIABLES
    fs,        \* the paths of FsAll that exist
    disk,      \* the files the rebuild scans: [desktop: set of files, bins: set of PATH executables]
    heatmap,   \* heatmap.json: [ok: BOOLEAN, map: name -> count]; ~ok is a missing or malformed file
    cache,     \* APP_CACHE: key -> AppEntry
    lock,      \* the RwLock of APP_CACHE: [readers: set of searcher ids, writer: BOOLEAN]
    rb,        \* load_applications in flight: its position and locals
    srch,      \* searcher id -> search_applications call in flight (position, query, entries read)
    saves,     \* the save_heatmap threads spawned by increment_launch_count, by thread id
    ui,        \* app_data_store as last filled by update_results_list, and what the last search returned
    build,     \* what the build leaves open: how sort_unstable_by_key orders equal keys
    hist,      \* history: counts seeded by the last swap, launches since, and the last launch
    calc       \* one evaluation of a function on its own: the arguments drawn and the values computed

vars == <<fs, disk, heatmap, cache, lock, rb, srch, saves, ui, build, hist, calc>>

(***************************************************************************)
(* Strings                                                                 *)
(***************************************************************************)

\* The ASCII characters the model uses, in byte order (the order of str::cmp).
CharOrder == " $-./0123456789ABCDEFGHIJKLMNOPQRSTUVWXYZ_abcdefghijklmnopqrstuvwxyz~"

Uppers == "ABCDEFGHIJKLMNOPQRSTUVWXYZ"

Lowers == "abcdefghijklmnopqrstuvwxyz"

CharAt(s, i) == SubSeq(s, i, i)

Chars(alphabet) == {CharAt(alphabet, i) : i \in 1..Len(alphabet)}

\* the position of each character in byte order
OrdOf == [c \in Chars(CharOrder) |-> CHOOSE i \in 1..Len(CharOrder) : CharAt(CharOrder, i) = c]

Ord(c) == OrdOf[c]

\* char::to_lowercase on the ASCII letters
LowerOf ==
    [c \in Chars(CharOrder) |->
        IF c \in Chars(Uppers)
        THEN CharAt(Lowers, CHOOSE i \in 1..Len(Uppers) : CharAt(Uppers, i) = c)
        ELSE c]

LowerChar(c) == LowerOf[c]

RECURSIVE ToLowercase(_)
ToLowercase(s) ==
    IF s = "" THEN "" ELSE LowerChar(CharAt(s, 1)) \o ToLowercase(Tail(s))

StartsWith(s, p) == Len(s) >= Len(p) /\ SubSeq(s, 1, Len(p)) = p

EndsWith(s, p) == Len(s) >= Len(p) /\ SubSeq(s, Len(s) - Len(p) + 1, Len(s)) = p

\* a < b in str::cmp (lexicographic by byte)
RECURSIVE StrLess(_, _)
StrLess(a, b) ==
    IF b = "" THEN FALSE
    ELSE IF a = "" THEN TRUE
    ELSE IF CharAt(a, 1) = CharAt(b, 1) THEN StrLess(Tail(a), Tail(b))
    ELSE Ord(CharAt(a, 1)) < Ord(CharAt(b, 1))

\* the index of the last c in s, 0 when there is none
LastIndexOf(s, c) ==
    IF \E i \in 1..Len(s) : CharAt(s, i) = c
    THEN CHOOSE i \in 1..Len(s) : CharAt(s, i) = c /\ \A j \in (i+1)..Len(s) : CharAt(s, j) # c
    ELSE 0

FirstIndexOf(s, c) ==
    IF \E i \in 1..Len(s) : CharAt(s, i) = c
    THEN CHOOSE i \in 1..Len(s) : CharAt(s, i) = c /\ \A j \in 1..(i-1) : CharAt(s, j) # c
    ELSE 0

\* str::split_whitespace: the non-empty words between blanks
RECURSIVE SplitWhitespace(_)
SplitWhitespace(s) ==
    IF s = "" THEN <<>>
    ELSE IF CharAt(s, 1) = " " THEN SplitWhitespace(Tail(s))
    ELSE LET sp == FirstIndexOf(s, " ")
         IN  IF sp = 0 THEN <<s>>
             ELSE <<SubSeq(s, 1, sp - 1)>> \o SplitWhitespace(SubSeq(s, sp + 1, Len(s)))

\* [T]::join(" ")
RECURSIVE JoinSpace(_)
JoinSpace(parts) ==
    IF parts = <<>> THEN ""
    ELSE IF Len(parts) = 1 THEN parts[1]
    ELSE parts[1] \o " " \o JoinSpace(Tail(parts))

Range(f) == {f[x] : x \in DOMAIN f}

\* all orders in which the elements of a finite set can be enumerated
RECURSIVE Perms(_)
Perms(S) ==
    IF S = {} THEN {<<>>}
    ELSE UNION {{<<x>> \o p : p \in Perms(S \ {x})} : x \in S}

(***************************************************************************)
(* The file system, the environment and std::path                          *)
(***************************************************************************)

\* The files search.rs and create_file_entry may find (fs holds the paths that exist): kind "other" is what is neither
\* a regular file nor a directory (a socket, a device), x is any executable bit of the
\* mode, mime is what `file --mime-type -b` prints, readable is whether read_dir succeeds.
FsNode(kind, x, mime, readable) == [kind |-> kind, x |-> x, mime |-> mime, readable |-> readable]

FsAll ==
    [p \in {"/", "/etc", "/etc/b", "/etc/Z", "/etc/a", "/etc/C", "/etc/sock",
            "/etc/b/k", "/h", "/h/d.pdf", "/root", "/usr", "/usr/bin", "/usr/bin/ls",
            "/usr/bin/file", "/usr/bin/doc"} |->
        CASE p \in {"/", "/etc", "/etc/b", "/etc/Z", "/h", "/usr", "/usr/bin"}
                -> FsNode("dir", TRUE, "inode/directory", TRUE)
          [] p = "/root" -> FsNode("dir", TRUE, "inode/directory", FALSE)
          [] p \in {"/etc/C", "/usr/bin/ls", "/usr/bin/file"}
                -> FsNode("file", TRUE, "application/x-executable", TRUE)
          [] p = "/h/d.pdf" -> FsNode("file", FALSE, "application/pdf", TRUE)
          [] p = "/etc/sock" -> FsNode("other", FALSE, "inode/socket", TRUE)
          [] OTHER -> FsNode("file", FALSE, "text/plain", TRUE)]

\* the process's environment, as shellexpand reads it
Home == "/h"

EnvVars == [v \in {"e"} |-> "/etc"]

Cwd == "/"

\* Path::components on a Unix path: the names between slashes; empty names and "." are skipped
RECURSIVE Components(_)
Components(p) ==
    IF p = "" THEN <<>>
    ELSE LET sl == FirstIndexOf(p, "/")
             first == IF sl = 0 THEN p ELSE SubSeq(p, 1, sl - 1)
             rest == IF sl = 0 THEN "" ELSE SubSeq(p, sl + 1, Len(p))
         IN  IF first = "" \/ first = "." THEN Components(rest)
             ELSE <<first>> \o Components(rest)

IsAbsolute(p) == StartsWith(p, "/")

RECURSIVE JoinComponents(_)
JoinComponents(cs) ==
    IF cs = <<>> THEN ""
    ELSE IF Len(cs) = 1 THEN cs[1]
    ELSE cs[1] \o "/" \o JoinComponents(Tail(cs))

\* Path::parent: None for the root and for the empty path
PathParent(p) ==
    LET cs == Components(p)
    IN  IF cs = <<>> THEN {}
        ELSE {(IF IsAbsolute(p) THEN "/" ELSE "") \o JoinComponents(SubSeq(cs, 1, Len(cs) - 1))}

\* Path::file_name: None for the root and for a path that ends in ".."
PathFileName(p) ==
    LET cs == Components(p)
    IN  IF cs = <<>> \/ cs[Len(cs)] = ".." THEN {} ELSE {cs[Len(cs)]}

\* Path::extension of the file name
PathExtension(p) ==
    IF PathFileName(p) = {} THEN {}
    ELSE LET n == CHOOSE x \in PathFileName(p) : TRUE
             dot == LastIndexOf(n, ".")
         IN  IF dot <= 1 THEN {} ELSE {SubSeq(n, dot + 1, Len(n))}

\* Path::join of a directory and a name
PathJoin(dir, name) == IF EndsWith(dir, "/") THEN dir \o name ELSE dir \o "/" \o name

\* the kernel's path walk from cur along cs: the node reached, None when a step fails
RECURSIVE Walk(_, _)
Walk(cur, cs) ==
    IF cur \notin fs THEN {}
    ELSE IF cs = <<>> THEN {cur}
    ELSE IF FsAll[cur].kind # "dir" THEN {}
    ELSE IF cs[1] = ".."
         THEN Walk(IF PathParent(cur) = {} THEN cur ELSE CHOOSE q \in PathParent(cur) : TRUE,
                   Tail(cs))
         ELSE Walk(PathJoin(cur, cs[1]), Tail(cs))

\* std::fs::metadata(path).ok(): the node the path names, following the walk
Metadata(p) ==
    IF p = "" THEN {}
    ELSE {FsAll[n] : n \in Walk(IF IsAbsolute(p) THEN "/" ELSE Cwd, Components(p))}

IsDir(p) == \E m \in Metadata(p) : m.kind = "dir"

\* std::fs::read_dir(dir).ok(): the names in the directory, None when it cannot be read
ReadDir(dir) ==
    IF ~IsDir(dir) \/ ~(\E m \in Metadata(dir) : m.readable) THEN {}
    ELSE LET n == CHOOSE x \in Walk(IF IsAbsolute(dir) THEN "/" ELSE Cwd, Components(dir)) : TRUE
         IN  {{Components(c)[Len(Components(c))] :
                  c \in {x \in fs : x # "/" /\ PathParent(x) = {n}}}}

\* shellexpand::full(s).ok(): a leading "~" or "~/" becomes the home directory, a
\* leading $VAR its value; an undefined variable is an error
ShellExpandFull(s) ==
    IF s = "~" \/ StartsWith(s, "~/") THEN {Home \o Tail(s)}
    ELSE IF StartsWith(s, "$")
    THEN LET sl == FirstIndexOf(s, "/")
             var == IF sl = 0 THEN Tail(s) ELSE SubSeq(s, 2, sl - 1)
             rest == IF sl = 0 THEN "" ELSE SubSeq(s, sl, Len(s))
         IN  IF var = "" THEN {s}
             ELSE IF var \in DOMAIN EnvVars THEN {EnvVars[var] \o rest} ELSE {}
    ELSE {s}

(***************************************************************************)
(* launcher.rs: AppEntry and create_file_entry                             *)
(***************************************************************************)

AppEntry(name, exec, icon_name, path, description, launch_count, entry_type) ==
    [name |-> name, exec |-> exec, icon_name |-> icon_name, path |-> path,
     description |-> description, launch_count |-> launch_count, entry_type |-> entry_type]

\* the icon create_file_entry picks for a regular file without an executable bit
MimeIcon(mime_type, path) ==
    LET sl == FirstIndexOf(mime_type, "/")
        major == IF sl = 0 THEN mime_type ELSE SubSeq(mime_type, 1, sl - 1)
    IN  CASE major = "text" -> "text-x-generic"
          [] major = "image" -> "image-x-generic"
          [] major = "audio" -> "audio-x-generic"
          [] major = "video" -> "video-x-generic"
          [] major = "application" ->
                IF PathExtension(path) = {"pdf"} THEN "application-pdf" ELSE "application-x-generic"
          [] OTHER -> "text-x-generic"

OpenCommand(mime_type, path) ==
    "xdg-mime query default " \o mime_type \o " | xargs -I {} sh -c 'which {} >/dev/null && {} \""
        \o path \o "\" || xdg-open \"" \o path \o "\"'"

create_file_entry(raw) ==
    LET expanded == IF StartsWith(raw, "~") \/ StartsWith(raw, "$") THEN ShellExpandFull(raw) ELSE {raw}
    IN  UNION {
          UNION {
            IF m.kind \notin {"file", "dir"} THEN {}
            ELSE {AppEntry(name,
                           IF m.kind = "dir" THEN ""
                           ELSE IF m.x THEN "\"" \o path \o "\""
                           ELSE OpenCommand(m.mime, path),
                           IF m.kind = "dir" THEN "folder"
                           ELSE IF m.x THEN "application-x-executable"
                           ELSE MimeIcon(m.mime, path),
                           path, "", 0, "File") : name \in PathFileName(path)}
            : m \in Metadata(path)}
          : path \in expanded}

(***************************************************************************)
(* search.rs                                                               *)
(***************************************************************************)

BONUS_SCORE_LAUNCH_COUNT == 100

BONUS_SCORE_ICON_NAME == 1000

BONUS_SCORE_BINARY == 3000

BONUS_SCORE_FOLDER == 2000

SearchResult(app, score) == [app |-> app, score |-> score]

\* the bonus without the launch-count term
calculate_bonus_score_of_icon(app) ==
    IF app.icon_name = "application-x-executable" THEN 0 ELSE BONUS_SCORE_ICON_NAME

calculate_bonus_score(app) ==
    (app.launch_count * BONUS_SCORE_LAUNCH_COUNT)
        + (IF app.icon_name = "application-x-executable" THEN 0 ELSE BONUS_SCORE_ICON_NAME)

\* SkimMatcherV2::default() of the fuzzy-matcher crate: its score configuration
ScoreMatch == 16

GapStart == -3

GapExtension == -1

BonusFirstCharMultiplier == 2

BonusHead == ScoreMatch \div 2

BonusConsecutive == -(GapStart + GapExtension)

RECURSIVE IsSubsequence(_, _)
IsSubsequence(pattern, choice) ==
    IF pattern = "" THEN TRUE
    ELSE IF choice = "" THEN FALSE
    ELSE IF CharAt(pattern, 1) = CharAt(choice, 1) THEN IsSubsequence(Tail(pattern), Tail(choice))
    ELSE IsSubsequence(pattern, Tail(choice))

\* the score of the leftmost alignment of pattern[j..] in choice[i..]; last is the
\* position of the previous match (0: none yet)
RECURSIVE AlignScore(_, _, _, _, _)
AlignScore(choice, pattern, i, j, last) ==
    IF j > Len(pattern) \/ i > Len(choice) THEN 0
    ELSE IF CharAt(choice, i) = CharAt(pattern, j)
    THEN ScoreMatch
           + (IF i = 1 THEN BonusHead * (IF j = 1 THEN BonusFirstCharMultiplier ELSE 1) ELSE 0)
           + (IF j > 1 /\ last = i - 1 THEN BonusConsecutive ELSE 0)
           + (IF j > 1 /\ last < i - 1 THEN GapStart + GapExtension * (i - last - 2) ELSE 0)
           + AlignScore(choice, pattern, i + 1, j + 1, i)
    ELSE AlignScore(choice, pattern, i + 1, j, last)

\* matcher.fuzzy_match(choice, pattern): None unless pattern is a subsequence of
\* choice (both are lower-cased by the caller, so smart case ignores case)
fuzzy_match(choice, pattern) ==
    IF IsSubsequence(pattern, choice) THEN {AlignScore(choice, pattern, 1, 1, 0)} ELSE {}

\* slice::sort_unstable_by_key(|item| -item.score): descending by score; the order of
\* equal scores is the build's (tie): the order met, or its reverse
RECURSIVE InsertByScore(_, _, _)
InsertByScore(sorted, r, tie) ==
    IF sorted = <<>> THEN <<r>>
    ELSE IF sorted[1].score > r.score \/ (sorted[1].score = r.score /\ tie = "stable")
    THEN <<sorted[1]>> \o InsertByScore(Tail(sorted), r, tie)
    ELSE <<r>> \o sorted

RECURSIVE SortFrom(_, _, _)
SortFrom(sorted, rest, tie) ==
    IF rest = <<>> THEN sorted
    ELSE SortFrom(InsertByScore(sorted, rest[1], tie), Tail(rest), tie)

\* the sort with the key item.score, without the negation: ascending by score
sort_unstable_by_score(results, tie) ==
    LET sorted == SortFrom(<<>>, results, tie)
    IN  [k \in 1..Len(sorted) |-> sorted[Len(sorted) + 1 - k]]

sort_unstable_by_key(results, tie) == SortFrom(<<>>, results, tie)

Truncate(results, n) == IF Len(results) > n THEN SubSeq(results, 1, n) ELSE results

\* search.rs:33-49, the loop of the empty query over cache.values() in the order vals
RECURSIVE EmptyScan(_, _, _)
EmptyScan(vals, results, max_results) ==
    IF vals = <<>> THEN results
    ELSE IF EndsWith(vals[1].path, ".desktop")
    THEN LET pushed == Append(results, SearchResult(vals[1], calculate_bonus_score(vals[1])))
         IN  IF Len(pushed) >= max_results THEN pushed
             ELSE EmptyScan(Tail(vals), pushed, max_results)
    ELSE EmptyScan(Tail(vals), results, max_results)

EmptySearch(vals, max_results, tie) ==
    sort_unstable_by_key(EmptyScan(vals, <<>>, max_results), tie)

\* search.rs:56-74, the loop of a text query: what one entry pushes
TextMatch(app, query) ==
    LET name_lower == ToLowercase(app.name)
    IN  IF name_lower = query
        THEN <<SearchResult(app, BONUS_SCORE_BINARY + calculate_bonus_score(app))>>
        ELSE IF fuzzy_match(name_lower, query) # {}
        THEN <<SearchResult(app, (CHOOSE sc \in fuzzy_match(name_lower, query) : TRUE)
                                    + calculate_bonus_score(app))>>
        ELSE <<>>

RECURSIVE TextScan(_, _)
TextScan(vals, query) ==
    IF vals = <<>> THEN <<>> ELSE TextMatch(vals[1], query) \o TextScan(Tail(vals), query)

SeenNames(vals, query) ==
    {ToLowercase(vals[i].name) : i \in {k \in 1..Len(vals) : TextMatch(vals[k], query) # <<>>}}

\* check_binary with the executable alone as the command, the arguments dropped
check_binary_without_arguments(query) ==
    LET parts == SplitWhitespace(query)
    IN  IF parts = <<>> THEN {}
        ELSE LET bin_path == "/usr/bin/" \o parts[1]
             IN  {SearchResult(
                      AppEntry(query, bin_path,
                               "application-x-executable", bin_path, "", 0, "File"),
                      BONUS_SCORE_BINARY) : m \in {n \in Metadata(bin_path) : n.x}}

check_binary(query) ==
    LET parts == SplitWhitespace(query)
    IN  IF parts = <<>> THEN {}
        ELSE LET bin_path == "/usr/bin/" \o parts[1]
             IN  {SearchResult(
                      AppEntry(query,
                               IF Len(parts) > 1
                               THEN bin_path \o " " \o JoinSpace(Tail(parts))
                               ELSE bin_path,
                               "application-x-executable", bin_path, "", 0, "File"),
                      BONUS_SCORE_BINARY) : m \in {n \in Metadata(bin_path) : n.x}}

TextSearch(vals, query, max_results, tie) ==
    LET matched == TextScan(vals, query)
        binary == IF query \notin SeenNames(vals, query) THEN check_binary(query) ELSE {}
        results == IF binary = {} THEN matched
                   ELSE Append(matched, CHOOSE r \in binary : TRUE)
    IN  Truncate(sort_unstable_by_key(results, tie), max_results)

\* the comparator without the to_lowercase of the names
ListingLessByBytes(a, b) ==
    LET a_is_folder == a.app.icon_name = "folder"
        b_is_folder == b.app.icon_name = "folder"
    IN  IF a_is_folder /\ ~b_is_folder THEN TRUE
        ELSE IF ~a_is_folder /\ b_is_folder THEN FALSE
        ELSE StrLess(a.app.name, b.app.name)

\* search.rs:185-194, the comparator of the listing: a is placed before b
ListingLess(a, b) ==
    LET a_is_folder == a.app.icon_name = "folder"
        b_is_folder == b.app.icon_name = "folder"
    IN  IF a_is_folder /\ ~b_is_folder THEN TRUE
        ELSE IF ~a_is_folder /\ b_is_folder THEN FALSE
        ELSE StrLess(ToLowercase(a.app.name), ToLowercase(b.app.name))

\* slice::sort_by, a stable sort
RECURSIVE InsertListing(_, _)
InsertListing(sorted, r) ==
    IF sorted = <<>> THEN <<r>>
    ELSE IF ListingLess(r, sorted[1]) THEN <<r>> \o sorted
    ELSE <<sorted[1]>> \o InsertListing(Tail(sorted), r)

RECURSIVE SortListing(_, _)
SortListing(sorted, rest) ==
    IF rest = <<>> THEN sorted ELSE SortListing(InsertListing(sorted, rest[1]), Tail(rest))

\* the directory handle_path_search lists (search.rs:140-149)
ListingDir(query) ==
    LET expanded == IF ShellExpandFull(query) = {} THEN query
                    ELSE CHOOSE e \in ShellExpandFull(query) : TRUE
    IN  IF IsDir(expanded) THEN expanded
        ELSE IF PathParent(expanded) = {} THEN "/"
        ELSE CHOOSE p \in PathParent(expanded) : TRUE

\* the ".." entry (search.rs:156-167)
ParentEntry(dir) ==
    UNION {{SearchResult([e EXCEPT !.name = ".."], BONUS_SCORE_FOLDER) :
               e \in create_file_entry(parent_dir)} : parent_dir \in PathParent(dir)}

\* the entries of the children, in the order read_dir gave their names (search.rs:169-183)
RECURSIVE ChildEntries(_, _)
ChildEntries(dir, names) ==
    IF names = <<>> THEN <<>>
    ELSE LET made == create_file_entry(PathJoin(dir, names[1]))
         IN  (IF made = {} THEN <<>>
              ELSE LET app == CHOOSE e \in made : TRUE
                   IN  <<SearchResult(app, IF app.icon_name = "folder" THEN BONUS_SCORE_FOLDER
                                           ELSE BONUS_SCORE_ICON_NAME)>>)
             \o ChildEntries(dir, Tail(names))

\* handle_path_search(query), names being the order in which read_dir yields the
\* children of the listing directory
handle_path_search(query, names) ==
    LET dir == ListingDir(query)
    IN  IF ReadDir(dir) = {} THEN <<>>
        ELSE (IF ParentEntry(dir) = {} THEN <<>> ELSE <<CHOOSE r \in ParentEntry(dir) : TRUE>>)
             \o SortListing(<<>>, ChildEntries(dir, names))

\* the orders in which read_dir may yield the children of the directory a query lists
IsPathQuery(query) ==
    query # "" /\ CharAt(query, 1) \in {"~", "$", "/"}

ReadDirOrders(query) ==
    IF ~IsPathQuery(query) \/ ReadDir(ListingDir(query)) = {} THEN {<<>>}
    ELSE Perms(CHOOSE names \in ReadDir(ListingDir(query)) : TRUE)

\* the closure of search_applications: vals is cache.values() in iteration order
SearchOver(vals, raw_query, max_results, names, tie) ==
    LET query == ToLowercase(raw_query)
    IN  IF IsPathQuery(query) THEN handle_path_search(query, names)
        ELSE IF query = "" THEN EmptySearch(vals, max_results, tie)
        ELSE TextSearch(vals, query, max_results, tie)

(***************************************************************************)
(* launcher.rs: the heatmap file and load_applications                     *)
(***************************************************************************)

EmptyMap == [n \in {} |-> 0]

\* HashMap::insert
MapInsert(m, k, v) == [x \in DOMAIN m \cup {k} |-> IF x = k THEN v ELSE m[x]]

\* a default of 1 for a name the heatmap does not hold
GetOrOne(m, k) == IF k \in DOMAIN m THEN m[k] ELSE 1

\* HashMap::get(k).copied().unwrap_or_default()
GetOrDefault(m, k) == IF k \in DOMAIN m THEN m[k] ELSE 0

\* load_heatmap: the mapping in the file, the empty mapping when it cannot be read or parsed
load_heatmap(file) == IF file.ok THEN file.map ELSE EmptyMap

\* save_heatmap's write of the mapping it loaded with name -> count inserted
HeatmapFile(loaded, name, count) == [ok |-> TRUE, map |-> MapInsert(loaded, name, count)]

(***************************************************************************)
(* heatmap.json as text: serde_json::to_string and serde_json::from_str    *)
(***************************************************************************)

Digits == "0123456789"

\* the decimal numeral of n >= 0
RECURSIVE Numeral(_)
Numeral(n) ==
    IF n < 10 THEN CharAt(Digits, n + 1) ELSE Numeral(n \div 10) \o CharAt(Digits, (n % 10) + 1)

\* a key written with no escaping at all
RECURSIVE NoEscape(_)
NoEscape(s) == IF s = "" THEN "" ELSE CharAt(s, 1) \o NoEscape(Tail(s))

\* the body of a JSON string: the quote and the backslash are escaped
RECURSIVE Escape(_)
Escape(s) ==
    IF s = "" THEN ""
    ELSE (IF CharAt(s, 1) \in {"\"", "\\"} THEN "\\" ELSE "") \o CharAt(s, 1) \o Escape(Tail(s))

\* serde_json::to_string(&heatmap): the members in the order the HashMap iterates,
\* without white space
RECURSIVE Members(_, _)
Members(map, order) ==
    IF order = <<>> THEN ""
    ELSE "\"" \o Escape(order[1]) \o "\":" \o Numeral(map[order[1]])
         \o (IF Len(order) > 1 THEN "," ELSE "") \o Members(map, Tail(order))

to_string(map, order) == "{" \o Members(map, order) \o "}"

\* the position of the first character at or after i that is not white space
RECURSIVE SkipWs(_, _)
SkipWs(s, i) ==
    IF i <= Len(s) /\ CharAt(s, i) \in {" ", "\n", "\t", "\r"} THEN SkipWs(s, i + 1) ELSE i

\* a JSON string whose opening quote is at i - 1: its value and the position after
\* the closing quote. Of the escapes, \" \\ and \/ are read; the texts drawn hold
\* no other.
RECURSIVE ParseString(_, _, _)
ParseString(s, i, acc) ==
    IF i > Len(s) THEN [ok |-> FALSE, next |-> i, val |-> acc]
    ELSE IF CharAt(s, i) = "\"" THEN [ok |-> TRUE, next |-> i + 1, val |-> acc]
    ELSE IF CharAt(s, i) = "\\"
    THEN IF i + 1 <= Len(s) /\ CharAt(s, i + 1) \in {"\"", "\\", "/"}
         THEN ParseString(s, i + 2, acc \o CharAt(s, i + 1))
         ELSE [ok |-> FALSE, next |-> i, val |-> acc]
    ELSE ParseString(s, i + 1, acc \o CharAt(s, i))

\* the position after the digits that start at i
RECURSIVE SkipDigits(_, _)
SkipDigits(s, i) ==
    IF i <= Len(s) /\ CharAt(s, i) \in Chars(Digits) THEN SkipDigits(s, i + 1) ELSE i

RECURSIVE ValueOf(_)
ValueOf(digits) ==
    IF digits = "" THEN 0
    ELSE 10 * ValueOf(SubSeq(digits, 1, Len(digits) - 1))
         + (CHOOSE d \in 0..9 : CharAt(Digits, d + 1) = CharAt(digits, Len(digits)))

\* a u32 at i: digits without a leading zero, and neither sign, fraction nor
\* exponent. Counts of the model have at most 9 digits.
ParseU32(s, i) ==
    LET j == SkipDigits(s, i)
        digits == SubSeq(s, i, j - 1)
    IN  IF \/ j = i
           \/ j - i > 9
           \/ (j - i > 1 /\ CharAt(s, i) = "0")
           \/ (j <= Len(s) /\ CharAt(s, j) \in {".", "e", "E"})
        THEN [ok |-> FALSE, next |-> i, val |-> 0]
        ELSE [ok |-> TRUE, next |-> j, val |-> ValueOf(digits)]

\* the members of an object from i on, i at the quote of a key; a repeated key keeps
\* its last value. The position returned is the one after the closing brace.
RECURSIVE ParseMembers(_, _, _)
ParseMembers(s, i, acc) ==
    LET fail == [ok |-> FALSE, next |-> i, map |-> acc]
    IN  IF i > Len(s) \/ CharAt(s, i) # "\"" THEN fail
        ELSE LET key == ParseString(s, i + 1, "")
                 colon == SkipWs(s, key.next)
             IN  IF ~key.ok \/ colon > Len(s) \/ CharAt(s, colon) # ":" THEN fail
                 ELSE LET num == ParseU32(s, SkipWs(s, colon + 1))
                          after == SkipWs(s, num.next)
                          map == MapInsert(acc, key.val, num.val)
                      IN  IF ~num.ok \/ after > Len(s) THEN fail
                          ELSE IF CharAt(s, after) = "}"
                          THEN [ok |-> TRUE, next |-> after + 1, map |-> map]
                          ELSE IF CharAt(s, after) = ","
                          THEN ParseMembers(s, SkipWs(s, after + 1), map)
                          ELSE fail

\* serde_json::from_str::<HashMap<String, u32>>(text): one object and nothing after it
from_str(text) ==
    LET open == SkipWs(text, 1)
        first == SkipWs(text, open + 1)
        parsed == IF open > Len(text) \/ CharAt(text, open) # "{"
                  THEN [ok |-> FALSE, next |-> open, map |-> EmptyMap]
                  ELSE IF first <= Len(text) /\ CharAt(text, first) = "}"
                  THEN [ok |-> TRUE, next |-> first + 1, map |-> EmptyMap]
                  ELSE ParseMembers(text, first, EmptyMap)
    IN  IF parsed.ok /\ SkipWs(text, parsed.next) > Len(text)
        THEN [ok |-> TRUE, map |-> parsed.map]
        ELSE [ok |-> FALSE, map |-> EmptyMap]

\* launcher.rs:60-62: what read_to_string and from_str make of the file
\* [readable, text]: the value of the variable heatmap
ParsedFile(file) ==
    IF file.readable THEN from_str(file.text) ELSE [ok |-> FALSE, map |-> EmptyMap]

(***************************************************************************)
(* launcher.rs: load_applications                                          *)
(***************************************************************************)

\* A file of a desktop-entry root: root is the position of the root in desktop_paths,
\* parses is whether parse_entry succeeds, name and icon are the Name and Icon
\* attributes (None when absent), nodisplay is NoDisplay=true.
DesktopFile(root, file, parses, name, exec, icon, comment, nodisplay) ==
    [root |-> root, file |-> file, parses |-> parses, name |-> name, exec |-> exec,
     icon |-> icon, comment |-> comment, nodisplay |-> nodisplay]

\* the path of a file of a root
DesktopPath(f) == "/share" \o CharAt("123456789", f.root) \o "/applications/" \o f.file

\* the insert keyed by the file's path instead of its Name
DesktopInsertByPath(apps, f, heat) ==
    IF EndsWith(f.file, ".desktop") /\ f.parses /\ f.name # {}
    THEN LET app_name == CHOOSE n \in f.name : TRUE
         IN  MapInsert(apps, DesktopPath(f),
                       AppEntry(app_name, f.exec,
                                IF f.icon = {} THEN "application-x-executable"
                                ELSE CHOOSE i \in f.icon : TRUE,
                                DesktopPath(f), f.comment, GetOrDefault(heat, app_name),
                                "Application"))
    ELSE apps

\* launcher.rs:90-131: what one file of a root inserts into apps
DesktopInsert(apps, f, heat) ==
    IF EndsWith(f.file, ".desktop") /\ f.parses /\ f.name # {}
    THEN LET app_name == CHOOSE n \in f.name : TRUE
         IN  MapInsert(apps, app_name,
                       AppEntry(app_name, f.exec,
                                IF f.icon = {} THEN "application-x-executable"
                                ELSE CHOOSE i \in f.icon : TRUE,
                                DesktopPath(f), f.comment, GetOrDefault(heat, app_name),
                                "Application"))
    ELSE apps

\* find_desktop_entry(name).map(|e| e.icon_name).unwrap_or_default(): the Icon of
\* <name>.desktop in the first fixed root that has a non-empty one, else ""
find_desktop_icon(files, name) ==
    LET found == {f \in files : f.file = name \o ".desktop" /\ f.parses
                                 /\ f.icon # {} /\ f.icon # {""}}
    IN  IF found = {} THEN ""
        ELSE LET first == CHOOSE f \in found : \A g \in found : f.root <= g.root
             IN  CHOOSE i \in first.icon : TRUE

\* launcher.rs:157-187: what one executable of a PATH directory inserts into apps
BinPath(b) == "/path" \o CharAt("123456789", b.dir) \o "/" \o b.name

\* the insert of an executable that does not look its name up in the heatmap
BinInsertUnseeded(apps, b, heat, files) ==
    MapInsert(apps, b.name,
              AppEntry(b.name, BinPath(b), find_desktop_icon(files, b.name), BinPath(b), "",
                       0, "Application"))

BinInsert(apps, b, heat, files) ==
    MapInsert(apps, b.name,
              AppEntry(b.name, BinPath(b), find_desktop_icon(files, b.name), BinPath(b), "",
                       GetOrDefault(heat, b.name), "Application"))

RECURSIVE ScanDesktop(_, _, _)
ScanDesktop(apps, order, heat) ==
    IF order = <<>> THEN apps
    ELSE ScanDesktop(DesktopInsert(apps, order[1], heat), Tail(order), heat)

RECURSIVE ScanBins(_, _, _, _)
ScanBins(apps, order, heat, files) ==
    IF order = <<>> THEN apps
    ELSE ScanBins(BinInsert(apps, order[1], heat, files), Tail(order), heat, files)

\* the orders in which the roots' files are met: root by root, any order inside a root
DesktopOrders(files) ==
    {p \in Perms(files) : \A i, j \in 1..Len(p) : i < j => p[i].root <= p[j].root}

\* the order of the collected PATH results: directory by directory, any order inside one
BinOrders(bins) ==
    {p \in Perms(bins) : \A i, j \in 1..Len(p) : i < j => p[i].dir <= p[j].dir}

\* a scan that inserts the executables of PATH before the desktop entries
ScanAllBinsFirst(d, heat, dorder, border) ==
    ScanDesktop(ScanBins(EmptyMap, border, heat, d.desktop), dorder, heat)

\* the apps map load_applications builds from the disk (launcher.rs:72-187)
ScanAll(d, heat, dorder, border) ==
    ScanBins(ScanDesktop(EmptyMap, dorder, heat), border, heat, d.desktop)

\* a HashMap with the order its values() iterates in
HashMapOf(map, order) == [map |-> map, order |-> order]

Values(c) == [i \in 1..Len(c.order) |-> c.map[c.order[i]]]

(***************************************************************************)
(* Bounds and the inputs drawn                                             *)
(***************************************************************************)

\* launches recorded in one run (each spawns one save_heatmap thread)
MaxLaunches == 2

\* calls of the public load_applications in one run (App::new makes the first)
MaxRebuilds == 2

\* config.window.max_entries is drawn from 0..MaxResults
MaxResults == 3

\* the launch count of a heavily used entry
BigCount == 30

\* the concurrent search_applications calls (one per keystroke still in flight)
Searchers == {1, 2}

SaveThreads == 1..MaxLaunches

Ties == {"stable", "reversed"}

(***************************************************************************)
(* State                                                                   *)
(***************************************************************************)

\* fresh and snap are history: whether the call began after the last launch and swap,
\* and the cache as it was when the call took the read lock
IdleSearch ==
    [pc |-> "idle", query |-> "", max |-> 0, pos |-> 0, seen |-> <<>>, results |-> <<>>,
     fresh |-> FALSE, snap |-> HashMapOf(EmptyMap, <<>>)]

\* stray is history: whether the name was missing from the index at the launch
NoSave == [pc |-> "none", name |-> "", count |-> 0, map |-> EmptyMap, stray |-> FALSE]

IdleRebuild == [pc |-> "idle", heat |-> EmptyMap, apps |-> EmptyMap]

\* no function is being evaluated on its own
NoCalc == [pc |-> "none"]

\* during[t] is the number of the rebuild that had read the heatmap and not yet
\* swapped when the launch of save thread t was recorded (0: none); latest holds the
\* text of the search entry at its last change, the query of the search issued last;
\* opened holds the icons of the File entries activated
NoHistory ==
    [seeded |-> EmptyMap, launches |-> EmptyMap, orderly |-> TRUE, last |-> {}, swaps |-> 0,
     started |-> 0, during |-> [t \in SaveThreads |-> 0], latest |-> {}, opened |-> {}]

\* no row has been activated yet
NoAct == [kind |-> "none", path |-> "", text |-> "", spawned |-> FALSE, hid |-> FALSE]

\* the window as LauncherWindow::new builds and presents it: results is the ListStore
\* behind the list view, store is app_data_store; query and fresh are history (the
\* query the list was computed for, and whether since the last launch and swap), and
\* act is the outcome of the last activation of a row
NoUi ==
    [query |-> "", results |-> <<>>, store |-> <<>>, fresh |-> FALSE, visible |-> TRUE,
     act |-> NoAct]

\* the state after construction, before App::new calls load_applications: APP_CACHE is
\* Lazy::new(|| RwLock::new(HashMap::new()))
InitProcess ==
    /\ cache = HashMapOf(EmptyMap, <<>>)
    /\ lock = [readers |-> {}, writer |-> FALSE]
    /\ rb = IdleRebuild
    /\ srch = [i \in Searchers |-> IdleSearch]
    /\ saves = [t \in SaveThreads |-> NoSave]
    /\ ui = NoUi
    /\ hist = NoHistory
    /\ calc = NoCalc

(***************************************************************************)
(* load_applications, step by step                                         *)
(***************************************************************************)

\* launcher.rs:68-70: the heatmap is loaded first
RebuildLoadHeatmap ==
    /\ rb.pc = "idle"
    /\ hist.started < MaxRebuilds
    /\ rb' = [pc |-> "scan", heat |-> load_heatmap(heatmap), apps |-> EmptyMap]
    /\ hist' = [hist EXCEPT !.started = @ + 1]
    /\ UNCHANGED <<fs, disk, heatmap, cache, lock, srch, saves, ui, build, calc>>

\* a scan that gives up at the first file it cannot resolve (a `?` on parse_entry and
\* on the Name attribute): the rebuild never gets past it
RebuildScanAborting ==
    /\ rb.pc = "scan"
    /\ \A f \in disk.desktop : EndsWith(f.file, ".desktop") => (f.parses /\ f.name # {})
    /\ \E dorder \in DesktopOrders(disk.desktop), border \in BinOrders(disk.bins) :
          rb' = [rb EXCEPT !.pc = "ready", !.apps = ScanAll(disk, rb.heat, dorder, border)]
    /\ UNCHANGED <<fs, disk, heatmap, cache, lock, srch, saves, ui, build, hist, calc>>

\* launcher.rs:72-187: the roots, then PATH, fill the local map apps
RebuildScan ==
    /\ rb.pc = "scan"
    /\ \E dorder \in DesktopOrders(disk.desktop), border \in BinOrders(disk.bins) :
          rb' = [rb EXCEPT !.pc = "ready", !.apps = ScanAll(disk, rb.heat, dorder, border)]
    /\ UNCHANGED <<fs, disk, heatmap, cache, lock, srch, saves, ui, build, hist, calc>>

\* a write lock that does not wait for the readers
CanWriteBesideReaders(l) == ~l.writer

\* RwLock::write is granted when no reader and no writer holds the lock
CanWrite(l) == l.readers = {} /\ ~l.writer

\* RwLock::read is granted when no writer holds the lock
CanRead(l) == ~l.writer

\* launcher.rs:190: APP_CACHE.write().await
RebuildLock ==
    /\ rb.pc = "ready"
    /\ CanWrite(lock)
    /\ lock' = [lock EXCEPT !.writer = TRUE]
    /\ rb' = [rb EXCEPT !.pc = "locked"]
    /\ UNCHANGED <<fs, disk, heatmap, cache, srch, saves, ui, build, hist, calc>>

\* launcher.rs:191-192: *cache = apps, and the guard is dropped. The new HashMap has
\* its own iteration order.
RebuildSwap ==
    /\ rb.pc = "locked"
    /\ \E order \in Perms(DOMAIN rb.apps) : cache' = HashMapOf(rb.apps, order)
    /\ lock' = [lock EXCEPT !.writer = FALSE]
    /\ rb' = IdleRebuild
    /\ srch' = [i \in Searchers |-> [srch[i] EXCEPT !.fresh = FALSE]]
    /\ ui' = [ui EXCEPT !.fresh = FALSE]
    /\ hist' = [hist EXCEPT !.seeded = [n \in DOMAIN rb.apps |-> rb.apps[n].launch_count],
                            !.launches = [n \in DOMAIN rb.apps |-> 0],
                            !.orderly = \A t \in SaveThreads : saves[t].pc \in {"none", "done"},
                            !.last = {},
                            !.swaps = @ + 1]
    /\ UNCHANGED <<fs, disk, heatmap, saves, build, calc>>

(***************************************************************************)
(* search_applications, step by step, and update_results_list              *)
(***************************************************************************)

\* search.rs:27-28: the blocking task takes the read lock, whatever the query
SearchStart(i, query, max_results) ==
    /\ srch[i].pc = "idle"
    /\ hist.swaps > 0
    /\ CanRead(lock)
    /\ lock' = [lock EXCEPT !.readers = @ \cup {i}]
    /\ srch' = [srch EXCEPT ![i] = [IdleSearch EXCEPT !.pc = "reading", !.query = query,
                                                      !.max = max_results, !.fresh = TRUE,
                                                      !.snap = cache]]
    /\ hist' = [hist EXCEPT !.latest = {query}]
    /\ UNCHANGED <<fs, disk, heatmap, cache, rb, saves, ui, build, calc>>

\* one step of `for app in cache.values()`: the next value is read
SearchRead(i) ==
    /\ srch[i].pc = "reading"
    /\ ~IsPathQuery(ToLowercase(srch[i].query))
    /\ srch[i].pos < Len(cache.order)
    /\ srch' = [srch EXCEPT ![i].pos = @ + 1,
                            ![i].seen = Append(@, cache.map[cache.order[srch[i].pos + 1]])]
    /\ UNCHANGED <<fs, disk, heatmap, cache, lock, rb, saves, ui, build, hist, calc>>

\* a search that takes the entries out of the index (drain() for values())
SearchFinishDraining(i) ==
    /\ srch[i].pc = "reading"
    /\ IsPathQuery(ToLowercase(srch[i].query)) \/ srch[i].pos >= Len(cache.order)
    /\ \E names \in ReadDirOrders(ToLowercase(srch[i].query)) :
          srch' = [srch EXCEPT ![i].pc = "done",
                               ![i].results = SearchOver(srch[i].seen, srch[i].query,
                                                         srch[i].max, names, build)]
    /\ lock' = [lock EXCEPT !.readers = @ \ {i}]
    /\ cache' = IF IsPathQuery(ToLowercase(srch[i].query)) THEN cache
                ELSE HashMapOf(EmptyMap, <<>>)
    /\ UNCHANGED <<fs, disk, heatmap, rb, saves, ui, build, hist, calc>>

\* search.rs:30-92: the results are computed from the values read and sent; the
\* guard is dropped when the closure ends
SearchFinish(i) ==
    /\ srch[i].pc = "reading"
    /\ IsPathQuery(ToLowercase(srch[i].query)) \/ srch[i].pos >= Len(cache.order)
    /\ \E names \in ReadDirOrders(ToLowercase(srch[i].query)) :
          srch' = [srch EXCEPT ![i].pc = "done",
                               ![i].results = SearchOver(srch[i].seen, srch[i].query,
                                                         srch[i].max, names, build)]
    /\ lock' = [lock EXCEPT !.readers = @ \ {i}]
    /\ UNCHANGED <<fs, disk, heatmap, cache, rb, saves, ui, build, hist, calc>>

\* an update that appends to the lists without emptying them first
DeliverAppending(i) ==
    /\ srch[i].pc = "done"
    /\ ui' = [ui EXCEPT !.query = srch[i].query,
                        !.results = @ \o Truncate(srch[i].results, srch[i].max),
                        !.store = @ \o [k \in DOMAIN Truncate(srch[i].results, srch[i].max) |->
                                           Truncate(srch[i].results, srch[i].max)[k].app],
                        !.fresh = srch[i].fresh]
    /\ srch' = [srch EXCEPT ![i] = IdleSearch]
    /\ UNCHANGED <<fs, disk, heatmap, cache, lock, rb, saves, build, hist, calc>>

\* ui.rs:491-521 update_results_list: both lists are emptied and the first max_entries
\* results are put into both
Deliver(i) ==
    /\ srch[i].pc = "done"
    /\ ui' = [ui EXCEPT !.query = srch[i].query,
                        !.results = Truncate(srch[i].results, srch[i].max),
                        !.store = [k \in DOMAIN Truncate(srch[i].results, srch[i].max) |->
                                      Truncate(srch[i].results, srch[i].max)[k].app],
                        !.fresh = srch[i].fresh]
    /\ srch' = [srch EXCEPT ![i] = IdleSearch]
    /\ UNCHANGED <<fs, disk, heatmap, cache, lock, rb, saves, build, hist, calc>>

(***************************************************************************)
(* launch_application, increment_launch_count and save_heatmap             *)
(***************************************************************************)

\* launcher.rs:33-41: the count the save thread is given
increment_launch_count(app) == app.launch_count + 1

FreeThreads == {t \in SaveThreads : saves[t].pc = "none"}

\* a launch that runs save_heatmap itself before it returns
LaunchApplicationSaving(k) ==
    /\ ui.visible
    /\ k \in DOMAIN ui.results
    /\ ui.results[k].app.entry_type = "Application"
    /\ FreeThreads # {}
    /\ LET app == ui.results[k].app
           t == CHOOSE x \in FreeThreads : \A y \in FreeThreads : x <= y
       IN  /\ saves' = [saves EXCEPT ![t] = [pc |-> "done", name |-> app.name,
                                             count |-> increment_launch_count(app),
                                             map |-> load_heatmap(heatmap),
                                             stray |-> app.name \notin DOMAIN cache.map]]
           /\ heatmap' = HeatmapFile(load_heatmap(heatmap), app.name, increment_launch_count(app))
    /\ srch' = [i \in Searchers |-> [srch[i] EXCEPT !.fresh = FALSE]]
    /\ ui' = [ui EXCEPT !.fresh = FALSE]
    /\ UNCHANGED <<fs, disk, cache, lock, rb, build, hist, calc>>

\* a hidden window receives no input: rows are activated while the window is shown.
\* ui.rs:397-421: the window is hidden when launch_application returns true, that is
\* when Command::spawn succeeded; hiding it empties the search entry (ui.rs:424-427)
Hidden(visible, spawned) == visible /\ ~spawned

\* the outcome of an activation: the kind of the entry, the folder and the text given
\* to the search entry (ui.rs:577-585), whether a process was spawned, and whether the
\* handler hid the window
Act(kind, path, text, spawned) ==
    [kind |-> kind, path |-> path, text |-> text, spawned |-> spawned, hid |-> spawned]

\* ui.rs:559-575 with the handlers of ui.rs:397-421: an Application entry of the list
\* is activated
LaunchApplication(k) ==
    /\ ui.visible
    /\ k \in DOMAIN ui.results
    /\ ui.results[k].app.entry_type = "Application"
    /\ FreeThreads # {}
    /\ \E ok \in BOOLEAN : ui' = [ui EXCEPT !.fresh = FALSE, !.visible = Hidden(@, ok),
                                              !.act = Act("Application", "", "", ok)]
    /\ LET app == ui.results[k].app
           t == CHOOSE x \in FreeThreads : \A y \in FreeThreads : x <= y
       IN  /\ saves' = [saves EXCEPT ![t] = [pc |-> "spawned", name |-> app.name,
                                             count |-> increment_launch_count(app),
                                             map |-> EmptyMap,
                                             stray |-> app.name \notin DOMAIN cache.map]]
           /\ hist' = [hist EXCEPT
                  !.launches = IF app.name \in DOMAIN @ THEN [@ EXCEPT ![app.name] = @ + 1] ELSE @,
                  !.orderly = @ /\ ui.fresh /\ \A x \in SaveThreads : saves[x].pc \in {"none", "done"},
                  !.last = IF ui.fresh /\ ui.query = ""
                           THEN {[name |-> app.name, score |-> ui.results[k].score]} ELSE {},
                  !.during = [@ EXCEPT ![t] = IF rb.pc = "idle" THEN 0 ELSE hist.started],
                  !.latest = IF ui'.act.hid THEN {""} ELSE @]
    /\ srch' = [i \in Searchers |-> [srch[i] EXCEPT !.fresh = FALSE]]
    /\ UNCHANGED <<fs, disk, heatmap, cache, lock, rb, build, calc>>

\* what the File entry activated was: a folder, the entry check_binary made up for a
\* query (named by the query, not by its file), or a file of a listing
OpenedKind(app) ==
    IF app.icon_name = "folder" THEN "folder"
    ELSE IF app.icon_name = "application-x-executable" /\ PathFileName(app.path) # {app.name}
              /\ app.name # ".."
         THEN "fallback"
         ELSE "file"

\* an activation of a File entry that records a launch as that of an application does
OpenFileCounting(k) ==
    /\ ui.visible
    /\ k \in DOMAIN ui.results
    /\ ui.results[k].app.entry_type = "File"
    /\ FreeThreads # {}
    /\ LET app == ui.results[k].app
           t == CHOOSE x \in FreeThreads : \A y \in FreeThreads : x <= y
       IN  /\ saves' = [saves EXCEPT ![t] = [pc |-> "spawned", name |-> app.name,
                                             count |-> increment_launch_count(app),
                                             map |-> EmptyMap,
                                             stray |-> app.name \notin DOMAIN cache.map]]
           /\ hist' = [hist EXCEPT !.opened = @ \cup {OpenedKind(app)}]
           /\ ui' = [ui EXCEPT !.act = Act("file", "", "", FALSE)]
    /\ UNCHANGED <<fs, disk, heatmap, cache, lock, rb, srch, build, calc>>

\* ui.rs:576-592 with the handlers of ui.rs:397-421: a File entry is activated. A
\* folder becomes the text of the search entry; anything else is opened by a process.
\* No launch is recorded.
OpenFile(k) ==
    /\ ui.visible
    /\ k \in DOMAIN ui.results
    /\ ui.results[k].app.entry_type = "File"
    /\ LET app == ui.results[k].app
           path == IF EndsWith(app.path, "/") THEN app.path ELSE app.path \o "/"
       IN  IF app.icon_name = "folder"
           THEN /\ ui' = [ui EXCEPT !.act = Act("folder", app.path, path, FALSE)]
                /\ hist' = [hist EXCEPT !.latest = {path}, !.opened = @ \cup {OpenedKind(app)}]
           ELSE /\ \E ok \in BOOLEAN :
                      ui' = [ui EXCEPT !.visible = Hidden(@, ok), !.act = Act("file", "", "", ok)]
                /\ hist' = [hist EXCEPT !.latest = IF ui'.act.hid THEN {""} ELSE @,
                                        !.opened = @ \cup {OpenedKind(app)}]
    /\ UNCHANGED <<fs, disk, heatmap, cache, lock, rb, srch, saves, build, calc>>

\* app.rs:102-106: hyprlauncher is run again and the window of the running process
\* is presented
Present ==
    /\ ~ui.visible
    /\ ui' = [ui EXCEPT !.visible = TRUE]
    /\ UNCHANGED <<fs, disk, heatmap, cache, lock, rb, srch, saves, build, hist, calc>>

\* launcher.rs:50: the thread loads the whole mapping
SaveLoad(t) ==
    /\ saves[t].pc = "spawned"
    /\ saves' = [saves EXCEPT ![t].pc = "loaded", ![t].map = load_heatmap(heatmap)]
    /\ UNCHANGED <<fs, disk, heatmap, cache, lock, rb, srch, ui, build, hist, calc>>

\* launcher.rs:51-55: it inserts its count and writes the whole mapping back
SaveWrite(t) ==
    /\ saves[t].pc = "loaded"
    /\ heatmap' = HeatmapFile(saves[t].map, saves[t].name, saves[t].count)
    /\ saves' = [saves EXCEPT ![t].pc = "done"]
    /\ UNCHANGED <<fs, disk, cache, lock, rb, srch, ui, build, hist, calc>>

(***************************************************************************)
(* The launcher process: startup, searches, launches, saves, refreshes     *)
(***************************************************************************)

FilesDesktop ==
    DesktopFile(1, "files.desktop", TRUE, {"Files"}, "files %U", {"system-file-manager"},
                "Browse the file system", FALSE)

LsBin == [dir |-> 1, name |-> "ls"]

DefaultDisk == [desktop |-> {FilesDesktop}, bins |-> {LsBin}]

ProcessQueries == {"", "file"}

Init ==
    /\ InitProcess
    /\ fs = DOMAIN FsAll
    /\ disk = DefaultDisk
    /\ heatmap \in {[ok |-> FALSE, map |-> EmptyMap],
                    [ok |-> TRUE, map |-> MapInsert(EmptyMap, "Files", 1)]}
    /\ build = "stable"

Next ==
    \/ RebuildLoadHeatmap
    \/ RebuildScan
    \/ RebuildLock
    \/ RebuildSwap
    \/ \E query \in ProcessQueries : SearchStart(1, query, MaxResults)
    \/ SearchRead(1)
    \/ SearchFinish(1)
    \/ Deliver(1)
    \/ \E k \in 1..MaxResults : LaunchApplication(k)
    \/ \E k \in 1..MaxResults : OpenFile(k)
    \/ \E t \in SaveThreads : SaveLoad(t)
    \/ \E t \in SaveThreads : SaveWrite(t)
    \/ Present

Spec == Init /\ [][Next]_vars

(***************************************************************************)
(* Two searches and a refresh contending for the lock of APP_CACHE         *)
(***************************************************************************)

\* the process after startup on a fresh install and one launch of Files whose save
\* has completed: the next rebuild seeds a count the cache does not hold
InitLock ==
    /\ fs = DOMAIN FsAll
    /\ disk = DefaultDisk
    /\ heatmap = [ok |-> TRUE, map |-> MapInsert(EmptyMap, "Files", 1)]
    /\ build = "stable"
    /\ \E order \in Perms({"Files", "ls"}) :
          cache = HashMapOf(ScanAll(disk, EmptyMap, <<FilesDesktop>>, <<LsBin>>), order)
    /\ hist = [NoHistory EXCEPT !.seeded = [n \in {"Files", "ls"} |-> 0],
                                !.launches = [n \in {"Files", "ls"} |-> IF n = "Files" THEN 1 ELSE 0],
                                !.swaps = 1, !.started = 1]
    /\ lock = [readers |-> {}, writer |-> FALSE]
    /\ rb = IdleRebuild
    /\ srch = [i \in Searchers |-> IdleSearch]
    /\ saves = [t \in SaveThreads |-> IF t = 1 THEN [pc |-> "done", name |-> "Files", count |-> 1,
                                                     map |-> EmptyMap, stray |-> FALSE]
                                      ELSE NoSave]
    /\ ui = NoUi
    /\ calc = NoCalc

NextLock ==
    \/ RebuildLoadHeatmap
    \/ RebuildScan
    \/ RebuildLock
    \/ RebuildSwap
    \/ \E i \in Searchers, query \in ProcessQueries : SearchStart(i, query, MaxResults)
    \/ \E i \in Searchers : SearchRead(i)
    \/ \E i \in Searchers : SearchFinish(i)
    \/ \E i \in Searchers : Deliver(i)

SpecLock == InitLock /\ [][NextLock]_vars

(***************************************************************************)
(* One search over every index of a family of disks and heatmaps           *)
(***************************************************************************)

FileRollerDesktop ==
    DesktopFile(1, "org.gnome.FileRoller.desktop", TRUE, {"FileRoller"}, "file-roller %U", {},
                "Archive manager", FALSE)

FileDesktop ==
    DesktopFile(2, "file.desktop", TRUE, {"file"}, "file", {}, "", FALSE)

\* a PATH executable whose name differs from the Name of files.desktop in case only
FilesBin == [dir |-> 1, name |-> "files"]

SearchDisks ==
    {[desktop |-> d, bins |-> b] :
        d \in SUBSET {FilesDesktop, FileRollerDesktop, FileDesktop},
        b \in {{}, {LsBin}, {FilesBin}}}

SearchHeats == [{"Files", "FileRoller", "file"} -> {0, BigCount}]

SearchQueries == {"", "file", "ls", "ls -la", "/h"}

\* the state after App::new: load_applications has filled the cache from the disk
InitSearch ==
    /\ fs = DOMAIN FsAll
    /\ disk \in SearchDisks
    /\ \E h \in SearchHeats : heatmap = [ok |-> TRUE, map |-> h]
    /\ build \in Ties
    /\ \E dorder \in DesktopOrders(disk.desktop), border \in BinOrders(disk.bins) :
          \E order \in Perms(DOMAIN ScanAll(disk, heatmap.map, dorder, border)) :
             /\ cache = HashMapOf(ScanAll(disk, heatmap.map, dorder, border), order)
             /\ hist = [NoHistory EXCEPT
                          !.seeded = [n \in DOMAIN cache.map |-> cache.map[n].launch_count],
                          !.launches = [n \in DOMAIN cache.map |-> 0],
                          !.swaps = 1, !.started = 1]
    /\ lock = [readers |-> {}, writer |-> FALSE]
    /\ rb = IdleRebuild
    /\ srch = [i \in Searchers |-> IdleSearch]
    /\ saves = [t \in SaveThreads |-> NoSave]
    /\ ui = NoUi
    /\ calc = NoCalc

\* each behaviour is one search, delivered
NextSearch ==
    \/ /\ ui = NoUi
       /\ \E query \in SearchQueries, max_results \in 0..MaxResults :
             SearchStart(1, query, max_results)
    \/ SearchRead(1)
    \/ SearchFinish(1)
    \/ Deliver(1)

SpecSearch == InitSearch /\ [][NextSearch]_vars

(***************************************************************************)
(* One path-mode search over every file system of a family                 *)
(***************************************************************************)

FsFixed ==
    {"/", "/etc", "/h", "/h/d.pdf", "/root", "/usr", "/usr/bin", "/usr/bin/ls", "/usr/bin/file",
     "/usr/bin/doc"}

FsFamily ==
    {FsFixed \cup s \cup (IF "/etc/b" \in s THEN {"/etc/b/k"} ELSE {}) :
        s \in SUBSET {"/etc/b", "/etc/Z", "/etc/a", "/etc/C", "/etc/sock"}}

PathQueries ==
    {"/etc", "/etc/", "/", "/etc/b", "/etc/b/", "/etc/nope", "/etc/b/..", "~", "~/d", "$e", "$e/b",
     "$nope", "/root", "/nope/x", "/h/d.pdf", "/usr/bin"}

InitPath ==
    /\ fs \in FsFamily
    /\ disk = DefaultDisk
    /\ heatmap = [ok |-> FALSE, map |-> EmptyMap]
    /\ build = "stable"
    /\ cache = HashMapOf(ScanAll(disk, EmptyMap, <<FilesDesktop>>, <<LsBin>>), <<"Files", "ls">>)
    /\ hist = [NoHistory EXCEPT !.seeded = [n \in {"Files", "ls"} |-> 0],
                                !.launches = [n \in {"Files", "ls"} |-> 0],
                                !.swaps = 1, !.started = 1]
    /\ lock = [readers |-> {}, writer |-> FALSE]
    /\ rb = IdleRebuild
    /\ srch = [i \in Searchers |-> IdleSearch]
    /\ saves = [t \in SaveThreads |-> NoSave]
    /\ ui = NoUi
    /\ calc = NoCalc

\* each behaviour is one search, delivered
NextPath ==
    \/ /\ ui = NoUi
       /\ \E query \in PathQueries, max_results \in {1, MaxResults} :
             SearchStart(1, query, max_results)
    \/ SearchFinish(1)
    \/ Deliver(1)

SpecPath == InitPath /\ [][NextPath]_vars

(***************************************************************************)
(* load_applications over every disk of a family                           *)
(***************************************************************************)

FilesLocalDesktop ==
    DesktopFile(2, "files.desktop", TRUE, {"Files"}, "files-local", {}, "", FALSE)

HiddenDesktop ==
    DesktopFile(1, "hidden.desktop", TRUE, {"Hidden"}, "hidden", {"hidden-icon"}, "", TRUE)

BrokenDesktop == DesktopFile(1, "broken.desktop", FALSE, {}, "", {}, "", FALSE)

NoNameDesktop == DesktopFile(1, "noname.desktop", TRUE, {}, "noname", {}, "", FALSE)

NotesFile == DesktopFile(1, "notes.txt", TRUE, {"Notes"}, "notes", {}, "", FALSE)

BuildDisks ==
    {[desktop |-> d, bins |-> b] :
        d \in SUBSET {FilesDesktop, FilesLocalDesktop, HiddenDesktop, BrokenDesktop,
                      NoNameDesktop, NotesFile},
        b \in SUBSET {LsBin, [dir |-> 2, name |-> "ls"], [dir |-> 1, name |-> "Files"]}}

\* heatmap.json at startup: missing, cut short by an interrupted write, or valid
BuildHeatFiles ==
    {[readable |-> FALSE, text |-> ""],
     [readable |-> TRUE, text |-> "{\"Files\":2,\"Hidden\":2,"],
     [readable |-> TRUE, text |-> "{\"Files\":2,\"Hidden\":2,\"ls\":1}"],
     [readable |-> TRUE, text |-> "{\"Files\":2}"]}

InitBuild ==
    /\ InitProcess
    /\ fs = DOMAIN FsAll
    /\ disk \in BuildDisks
    /\ heatmap \in {ParsedFile(f) : f \in BuildHeatFiles}
    /\ build = "stable"

NextBuild ==
    \/ RebuildLoadHeatmap
    \/ RebuildScan
    \/ RebuildLock
    \/ RebuildSwap

SpecBuild == InitBuild /\ [][NextBuild]_vars

(***************************************************************************)
(* The scores at their width: launch_count is a u32, a score an i64        *)
(***************************************************************************)

\* Numbers beyond the range of the checker's integers are sequences of 16-bit limbs,
\* least significant first: a u32 has 2 limbs, an i64 has 4 (two's complement).
LimbBase == 65536

\* `x as i64` of a u32: zero extension
AsI64(x) == x \o <<0, 0>>

\* the i64 of a small integer n >= 0
I64Of(n) == <<n % LimbBase, (n \div LimbBase) % LimbBase, 0, 0>>

\* the sign bit of an i64
IsNegative(x) == x[Len(x)] >= LimbBase \div 2

\* x * k on the limbs of x, wrapping at the width of x (k a small positive constant)
RECURSIVE MulLimbs(_, _, _)
MulLimbs(x, k, carry) ==
    IF x = <<>> THEN <<>>
    ELSE LET p == x[1] * k + carry
         IN  <<p % LimbBase>> \o MulLimbs(Tail(x), k, p \div LimbBase)

\* what x * k carries out of the width of x
RECURSIVE MulCarry(_, _, _)
MulCarry(x, k, carry) ==
    IF x = <<>> THEN carry ELSE MulCarry(Tail(x), k, (x[1] * k + carry) \div LimbBase)

\* x + y on limbs, wrapping at their width
RECURSIVE AddLimbs(_, _, _)
AddLimbs(x, y, carry) ==
    IF x = <<>> THEN <<>>
    ELSE LET t == x[1] + y[1] + carry
         IN  <<t % LimbBase>> \o AddLimbs(Tail(x), Tail(y), t \div LimbBase)

\* i64 * constant for x >= 0: the wrapped value, and whether the product overflowed
I64Mul(x, k) ==
    LET v == MulLimbs(x, k, 0)
    IN  [v |-> v, o |-> MulCarry(x, k, 0) # 0 \/ IsNegative(v)]

\* i64 + i64: the wrapped value, and whether the sum overflowed
I64Add(x, y) ==
    LET v == AddLimbs(x, y, 0)
    IN  [v |-> v, o |-> IsNegative(x) = IsNegative(y) /\ IsNegative(v) # IsNegative(x)]

\* x <= y on unsigned limbs of one width
RECURSIVE LimbsLessEq(_, _)
LimbsLessEq(x, y) ==
    IF x = <<>> THEN TRUE
    ELSE LET n == Len(x)
         IN  IF x[n] # y[n] THEN x[n] < y[n]
             ELSE LimbsLessEq(SubSeq(x, 1, n - 1), SubSeq(y, 1, n - 1))

\* x <= y on i64
I64LessEq(x, y) ==
    IF IsNegative(x) # IsNegative(y) THEN IsNegative(x) ELSE LimbsLessEq(x, y)

\* the multiplication done at the width of launch_count, before the cast:
\* (app.launch_count * BONUS_SCORE_LAUNCH_COUNT) as i64
calculate_bonus_score_u32(app) ==
    LET product == [v |-> AsI64(MulLimbs(app.launch_count, BONUS_SCORE_LAUNCH_COUNT, 0)),
                    o |-> MulCarry(app.launch_count, BONUS_SCORE_LAUNCH_COUNT, 0) # 0]
        sum == I64Add(product.v,
                      I64Of(IF app.icon_name = "application-x-executable" THEN 0
                            ELSE BONUS_SCORE_ICON_NAME))
    IN  [v |-> sum.v, o |-> product.o \/ sum.o]

\* search.rs:99-106 at the width of i64; app.launch_count is a u32 in limbs
calculate_bonus_score_i64(app) ==
    LET product == I64Mul(AsI64(app.launch_count), BONUS_SCORE_LAUNCH_COUNT)
        sum == I64Add(product.v,
                      I64Of(IF app.icon_name = "application-x-executable" THEN 0
                            ELSE BONUS_SCORE_ICON_NAME))
    IN  [v |-> sum.v, o |-> product.o \/ sum.o]

\* the score of an entry in each mode: search.rs:38 (empty query), search.rs:61 (exact
\* name), search.rs:70 (fuzzy, with the matcher's score for the name)
ScoreIn(mode, app, fuzzy) ==
    LET bonus == calculate_bonus_score_i64(app)
        base == IF mode = "empty" THEN I64Of(0)
                ELSE IF mode = "exact" THEN I64Of(BONUS_SCORE_BINARY)
                ELSE I64Of(fuzzy)
        sum == I64Add(base, bonus.v)
    IN  [v |-> sum.v, o |-> bonus.o \/ sum.o]

\* the limbs launch counts are drawn from: both ends of the range, both sides of the
\* sign bit, and small values
LimbValues == {0, 1, 30, LimbBase \div 2 - 1, LimbBase \div 2, LimbBase - 1}

ScoreModes == {"empty", "exact", "fuzzy"}

\* the matcher's score for the name: that of "file" in "files", and 0
FuzzyScores == {0, CHOOSE sc \in fuzzy_match("files", "file") : TRUE}

\* the variables of the process, at rest while a function is evaluated on its own
AtRest ==
    /\ fs = DOMAIN FsAll
    /\ disk = DefaultDisk
    /\ heatmap = [ok |-> FALSE, map |-> EmptyMap]
    /\ build = "stable"
    /\ cache = HashMapOf(EmptyMap, <<>>)
    /\ lock = [readers |-> {}, writer |-> FALSE]
    /\ rb = IdleRebuild
    /\ srch = [i \in Searchers |-> IdleSearch]
    /\ saves = [t \in SaveThreads |-> NoSave]
    /\ ui = NoUi
    /\ hist = NoHistory

\* one entry, two launch counts a <= b, a mode
InitScore ==
    /\ AtRest
    /\ \E a, b \in LimbValues \X LimbValues, mode \in ScoreModes, fuzzy \in FuzzyScores,
          icon \in {"application-x-executable", "system-file-manager"} :
          /\ LimbsLessEq(a, b)
          /\ mode # "fuzzy" => fuzzy = 0
          /\ calc = [pc |-> "drawn", mode |-> mode, fuzzy |-> fuzzy, icon |-> icon,
                     a |-> a, b |-> b, sa |-> <<>>, sb |-> <<>>]

ScoredEntry(launch_count) == AppEntry("files", "files", calc.icon, "/path1/files", "", launch_count, "Application")

\* the entry is scored with launch_count = a
ScoreLower ==
    /\ calc.pc = "drawn"
    /\ calc' = [calc EXCEPT !.pc = "lower", !.sa = ScoreIn(calc.mode, ScoredEntry(calc.a), calc.fuzzy)]
    /\ UNCHANGED <<fs, disk, heatmap, cache, lock, rb, srch, saves, ui, build, hist>>

\* the entry is scored with launch_count = b
ScoreHigher ==
    /\ calc.pc = "lower"
    /\ calc' = [calc EXCEPT !.pc = "scored", !.sb = ScoreIn(calc.mode, ScoredEntry(calc.b), calc.fuzzy)]
    /\ UNCHANGED <<fs, disk, heatmap, cache, lock, rb, srch, saves, ui, build, hist>>

NextScore ==
    \/ ScoreLower
    \/ ScoreHigher

SpecScore == InitScore /\ [][NextScore]_vars

(***************************************************************************)
(* Two searches, before and after a refresh that finds the same entries    *)
(***************************************************************************)

\* two desktop entries without an Icon: with no heatmap both score 0 for the empty query
TwiceDisk == [desktop |-> {FileRollerDesktop, FileDesktop}, bins |-> {}]

TwiceQueries == {"", "file", "/h"}

\* the state after App::new on this disk, with no heatmap file
InitTwice ==
    /\ fs = DOMAIN FsAll
    /\ disk = TwiceDisk
    /\ heatmap = [ok |-> FALSE, map |-> EmptyMap]
    /\ build = "stable"
    /\ \E dorder \in DesktopOrders(disk.desktop) :
          \E order \in Perms(DOMAIN ScanAll(disk, EmptyMap, dorder, <<>>)) :
             /\ cache = HashMapOf(ScanAll(disk, EmptyMap, dorder, <<>>), order)
             /\ hist = [NoHistory EXCEPT
                          !.seeded = [n \in DOMAIN cache.map |-> 0],
                          !.launches = [n \in DOMAIN cache.map |-> 0],
                          !.swaps = 1, !.started = 1]
    /\ lock = [readers |-> {}, writer |-> FALSE]
    /\ rb = IdleRebuild
    /\ srch = [i \in Searchers |-> IdleSearch]
    /\ saves = [t \in SaveThreads |-> NoSave]
    /\ ui = NoUi
    /\ calc = NoCalc

\* each searcher makes one search; the results stay in srch
NextTwice ==
    \/ RebuildLoadHeatmap
    \/ RebuildScan
    \/ RebuildLock
    \/ RebuildSwap
    \/ \E i \in Searchers, query \in TwiceQueries, max_results \in {1, MaxResults} :
          SearchStart(i, query, max_results)
    \/ \E i \in Searchers : SearchRead(i)
    \/ \E i \in Searchers : SearchFinish(i)

SpecTwice == InitTwice /\ [][NextTwice]_vars

(***************************************************************************)
(* save_heatmap and load_heatmap on the text of heatmap.json               *)
(***************************************************************************)

\* the contents heatmap.json may have before a save: empty, cut short, not an object,
\* a value that is no u32, text after the object, and valid objects
HeatTexts ==
    {"", "{", "[1]", "{\"Files\":2,", "{\"Files\":-1}", "{\"Files\":1}x", "{}", "{\"Files\":1}",
     "{ \"Files\" : 7 , \"ls\" : 2 }\n", "{\"a\\\"b\":3,\"ls\":1}"}

\* [readable, text, writable]: ~readable is the missing file, ~writable a file or
\* directory that fs::write cannot write
HeatFiles ==
    {[readable |-> FALSE, text |-> "", writable |-> w] : w \in BOOLEAN}
        \cup {[readable |-> TRUE, text |-> t, writable |-> w] : t \in HeatTexts, w \in BOOLEAN}

HeatNames == {"Files", "ls", "a\"b", "c\\d"}

HeatCounts == {0, 1, 10, 999999999}

\* save_heatmap(name, count) is about to run on a file
InitHeat ==
    /\ AtRest
    /\ \E file \in HeatFiles, name \in HeatNames, count \in HeatCounts :
          calc = [pc |-> "drawn", prior |-> file, file |-> file, name |-> name, count |-> count,
                  loaded |-> EmptyMap, after |-> EmptyMap]

\* launcher.rs:50: let mut heatmap = load_heatmap()
HeatSaveLoad ==
    /\ calc.pc = "drawn"
    /\ calc' = [calc EXCEPT !.pc = "loaded", !.loaded = load_heatmap(ParsedFile(calc.file))]
    /\ UNCHANGED <<fs, disk, heatmap, cache, lock, rb, srch, saves, ui, build, hist>>

\* launcher.rs:51-55: the insert, to_string and fs::write(...).unwrap_or_default()
HeatSaveWrite ==
    /\ calc.pc = "loaded"
    /\ LET inserted == MapInsert(calc.loaded, calc.name, calc.count)
       IN  \E order \in Perms(DOMAIN inserted) :
              calc' = [calc EXCEPT
                         !.pc = "saved",
                         !.file = IF calc.file.writable
                                  THEN [readable |-> TRUE, text |-> to_string(inserted, order),
                                        writable |-> TRUE]
                                  ELSE @]
    /\ UNCHANGED <<fs, disk, heatmap, cache, lock, rb, srch, saves, ui, build, hist>>

\* launcher.rs:58-64: load_heatmap() after the save
HeatLoad ==
    /\ calc.pc = "saved"
    /\ calc' = [calc EXCEPT !.pc = "reloaded", !.after = load_heatmap(ParsedFile(calc.file))]
    /\ UNCHANGED <<fs, disk, heatmap, cache, lock, rb, srch, saves, ui, build, hist>>

NextHeat ==
    \/ HeatSaveLoad
    \/ HeatSaveWrite
    \/ HeatLoad

SpecHeat == InitHeat /\ [][NextHeat]_vars

(***************************************************************************)
(* Two save_heatmap threads on the text of heatmap.json                    *)
(***************************************************************************)

RaceThreads == {1, 2}

\* heatmap.json before the two launches: missing, or holding earlier counts
RaceFiles ==
    {[readable |-> FALSE, text |-> ""],
     [readable |-> TRUE, text |-> "{\"Files\":1}"],
     [readable |-> TRUE, text |-> "{\"Files\":1,\"ls\":3}"]}

\* the name and count of the second save; the first is save_heatmap("Files", 2)
RaceSaves == {[name |-> "ls", count |-> 1], [name |-> "ls", count |-> 4],
              [name |-> "FileRoller", count |-> 1]}

RaceThread(name, count) ==
    [pc |-> "start", name |-> name, count |-> count, loaded |-> EmptyMap, contents |-> ""]

\* two launches have each spawned their thread (launcher.rs:38-40); last is history,
\* the thread whose write_all ran last
InitRace ==
    /\ AtRest
    /\ \E file \in RaceFiles, second \in RaceSaves :
          calc = [pc |-> "race", file |-> file, last |-> 0,
                  th |-> [t \in RaceThreads |->
                             IF t = 1 THEN RaceThread("Files", 2)
                             ELSE RaceThread(second.name, second.count)]]

\* launcher.rs:50: let mut heatmap = load_heatmap()
RaceLoad(t) ==
    /\ calc.pc = "race"
    /\ calc.th[t].pc = "start"
    /\ calc' = [calc EXCEPT !.th[t].pc = "loaded",
                            !.th[t].loaded = load_heatmap(ParsedFile(calc.file))]
    /\ UNCHANGED <<fs, disk, heatmap, cache, lock, rb, srch, saves, ui, build, hist>>

\* launcher.rs:51-54: the insert and to_string, then the first half of fs::write,
\* File::create, which opens the file truncated to length 0
RaceCreate(t) ==
    /\ calc.pc = "race"
    /\ calc.th[t].pc = "loaded"
    /\ LET inserted == MapInsert(calc.th[t].loaded, calc.th[t].name, calc.th[t].count)
       IN  \E order \in Perms(DOMAIN inserted) :
              calc' = [calc EXCEPT !.th[t].pc = "created",
                                   !.th[t].contents = to_string(inserted, order),
                                   !.file = [readable |-> TRUE, text |-> ""]]
    /\ UNCHANGED <<fs, disk, heatmap, cache, lock, rb, srch, saves, ui, build, hist>>

\* what a write of contents at offset 0 through a descriptor of its own leaves in a
\* file that holds text: the bytes past the end of contents stay
WriteAt0(text, contents) ==
    IF Len(text) > Len(contents)
    THEN contents \o SubSeq(text, Len(contents) + 1, Len(text))
    ELSE contents

\* launcher.rs:54: the second half of fs::write, write_all(contents)
RaceWriteAll(t) ==
    /\ calc.pc = "race"
    /\ calc.th[t].pc = "created"
    /\ calc' = [calc EXCEPT !.th[t].pc = "written",
                            !.last = t,
                            !.file = [readable |-> TRUE,
                                      text |-> WriteAt0(calc.file.text, calc.th[t].contents)]]
    /\ UNCHANGED <<fs, disk, heatmap, cache, lock, rb, srch, saves, ui, build, hist>>

NextRace ==
    \/ \E t \in RaceThreads : RaceLoad(t)
    \/ \E t \in RaceThreads : RaceCreate(t)
    \/ \E t \in RaceThreads : RaceWriteAll(t)

SpecRace == InitRace /\ [][NextRace]_vars

(***************************************************************************)
(* The process while the disk changes under it                             *)
(***************************************************************************)

\* a desktop-entry file is removed from its directory; the next read_dir of
\* load_applications (launcher.rs:88) does not find it
Uninstall(f) ==
    /\ f \in disk.desktop
    /\ disk' = [disk EXCEPT !.desktop = @ \ {f}]
    /\ UNCHANGED <<fs, heatmap, cache, lock, rb, srch, saves, ui, build, hist, calc>>

\* heatmap.json is deleted or damaged; the next read_to_string or from_str of
\* load_heatmap (launcher.rs:60-62) fails
HeatmapLost ==
    /\ heatmap.ok
    /\ heatmap' = ParsedFile([readable |-> FALSE, text |-> ""])
    /\ UNCHANGED <<fs, disk, cache, lock, rb, srch, saves, ui, build, hist, calc>>

\* the state after App::new with Files launched once in an earlier run
InitChange ==
    /\ fs = DOMAIN FsAll
    /\ disk = DefaultDisk
    /\ heatmap = ParsedFile([readable |-> TRUE, text |-> "{\"Files\":1}"])
    /\ build = "stable"
    /\ \E order \in Perms({"Files", "ls"}) :
          cache = HashMapOf(ScanAll(disk, heatmap.map, <<FilesDesktop>>, <<LsBin>>), order)
    /\ hist = [NoHistory EXCEPT !.seeded = [n \in {"Files", "ls"} |-> IF n = "Files" THEN 1 ELSE 0],
                                !.launches = [n \in {"Files", "ls"} |-> 0],
                                !.swaps = 1, !.started = 1]
    /\ lock = [readers |-> {}, writer |-> FALSE]
    /\ rb = IdleRebuild
    /\ srch = [i \in Searchers |-> IdleSearch]
    /\ saves = [t \in SaveThreads |-> NoSave]
    /\ ui = NoUi
    /\ calc = NoCalc

NextChange ==
    \/ RebuildLoadHeatmap
    \/ RebuildScan
    \/ RebuildLock
    \/ RebuildSwap
    \/ SearchStart(1, "", MaxResults)
    \/ SearchRead(1)
    \/ SearchFinish(1)
    \/ Deliver(1)
    \/ \E k \in 1..MaxResults : LaunchApplication(k)
    \/ \E t \in SaveThreads : SaveLoad(t)
    \/ \E t \in SaveThreads : SaveWrite(t)
    \/ Uninstall(FilesDesktop)
    \/ HeatmapLost
    \/ Present

SpecChange == InitChange /\ [][NextChange]_vars

(***************************************************************************)
(* Claims                                                                  *)
(***************************************************************************)

Done(i) == srch[i].pc = "done"

LowerQuery(i) == ToLowercase(srch[i].query)

InFlightSaves == {t \in SaveThreads : saves[t].pc \in {"spawned", "loaded"}}

(* C1: recording a launch of an entry of the index raises its launch_count in the
   index by exactly one without a rebuild, so the empty-query search made right
   after the launch shows the entry with a score one BONUS_SCORE_LAUNCH_COUNT
   above the score it had in the empty-query search it was launched from. *)
C1_LaunchRaisesIndexCountAndScore ==
    /\ \A n \in DOMAIN cache.map :
          cache.map[n].launch_count = hist.seeded[n] + hist.launches[n]
    /\ \A r \in hist.last :
          (ui.fresh /\ ui.query = "") =>
             \A k \in DOMAIN ui.results :
                ui.results[k].app.name = r.name =>
                   ui.results[k].score = r.score + BONUS_SCORE_LAUNCH_COUNT

(* C2: with entry X seeded with count c by the last rebuild, after k launches of X,
   each taken from a fresh search result and each begun after the previous save
   completed, with no rebuild in between, the heatmap file holds X -> c + k. *)
C2_HeatmapHoldsSeedPlusLaunches ==
    \A n \in DOMAIN hist.launches :
       (hist.orderly /\ hist.launches[n] >= 1 /\ InFlightSaves = {} /\ rb.pc = "idle") =>
          /\ heatmap.ok
          /\ n \in DOMAIN heatmap.map
          /\ heatmap.map[n] = hist.seeded[n] + hist.launches[n]

(* C3: in every mode and for every max_results, 0 included, a search returns at
   most max_results results. *)
C3_AtMostMaxResults ==
    \A i \in Searchers : Done(i) => Len(srch[i].results) <= srch[i].max

IsExactResult(i, r) == ToLowercase(r.app.name) = LowerQuery(i)

IsTextSearch(i) == LowerQuery(i) # "" /\ ~IsPathQuery(LowerQuery(i))

(* C4: in a text search an entry of the index whose lower-cased name equals the
   query has a strictly higher score, and an earlier position, than every entry
   that matches only fuzzily, whatever their launch counts and icons. *)
C4_ExactOutranksFuzzy ==
    \A i \in Searchers :
       (Done(i) /\ IsTextSearch(i)) =>
          \A a, b \in DOMAIN srch[i].results :
             LET ra == srch[i].results[a]
                 rb2 == srch[i].results[b]
             IN  (/\ ra.app.entry_type = "Application"
                  /\ rb2.app.entry_type = "Application"
                  /\ IsExactResult(i, ra)
                  /\ ~IsExactResult(i, rb2)) => (ra.score > rb2.score /\ a < b)

(* C5: the lock of the index is held by readers or by one writer, never both; the
   rebuild replaces the mapping in one step while it holds the write lock, so the
   values a search reads are those of one complete mapping, the one in place when
   it took the read lock, which stays in place until the search has read it. *)
C5_SearchReadsOneWholeMapping ==
    /\ ~(lock.writer /\ lock.readers # {})
    /\ \A i \in Searchers :
          /\ srch[i].pc = "reading" =>
                /\ i \in lock.readers
                /\ cache = srch[i].snap
                /\ srch[i].seen = SubSeq(Values(cache), 1, srch[i].pos)
          /\ (Done(i) /\ ~IsPathQuery(LowerQuery(i))) => srch[i].seen = Values(srch[i].snap)

\* two searches hold the read lock, one has read a value, and a rebuild waits to swap in
\* a mapping that differs from the one they read
C5_Witness ==
    /\ rb.pc = "ready"
    /\ rb.apps # cache.map
    /\ lock.readers = Searchers
    /\ \E i \in Searchers : srch[i].pos = 1

(* C6: after a rebuild the index holds no entry made from a desktop-entry file that
   sets NoDisplay. *)
C6_NoDisplayNotIndexed ==
    hist.swaps > 0 =>
       \A f \in disk.desktop :
          f.nodisplay => \A k \in DOMAIN cache.map : cache.map[k].path # DesktopPath(f)

(* C7: after every rebuild each entry of the index is stored under its own name, no
   two entries have the same name, and every entry is of kind Application. *)
C7_NamesUniqueAndApplications ==
    hist.swaps > 0 =>
       /\ \A k \in DOMAIN cache.map :
             /\ cache.map[k].name = k
             /\ cache.map[k].entry_type = "Application"
       /\ \A a, b \in 1..Len(cache.order) :
             a # b => Values(cache)[a].name # Values(cache)[b].name
       /\ Len(cache.order) = Cardinality(DOMAIN cache.map)

\* a rebuild over a disk where the name Files is declared by two desktop files and by a
\* PATH executable
C7_Witness ==
    /\ hist.swaps > 0
    /\ {FilesDesktop, FilesLocalDesktop} \subseteq disk.desktop
    /\ [dir |-> 1, name |-> "Files"] \in disk.bins
    /\ HiddenDesktop \in disk.desktop
    /\ "Files" \in DOMAIN cache.map
    /\ Cardinality(DOMAIN cache.map) >= 2

HasListing(i) ==
    /\ Done(i)
    /\ IsPathQuery(LowerQuery(i))
    /\ ReadDir(ListingDir(LowerQuery(i))) # {}

(* C8: a path-mode search whose listing directory can be read and has a parent
   returns a list whose first element is the ".." entry, with score
   BONUS_SCORE_FOLDER; so does the query "/etc", whose parent is the root. *)
C8_ParentEntryFirst ==
    \A i \in Searchers :
       (HasListing(i) /\ PathParent(ListingDir(LowerQuery(i))) # {}) =>
          /\ Len(srch[i].results) >= 1
          /\ srch[i].results[1].app.name = ".."
          /\ srch[i].results[1].score = BONUS_SCORE_FOLDER

\* the results after the ".." entry, when there is one
Children(i) ==
    LET rs == srch[i].results
    IN  IF rs # <<>> /\ rs[1].app.name = ".." THEN Tail(rs) ELSE rs

\* the files and directories that exist right under the directory a path names
ResolvableUnder(dir) ==
    {c \in fs : /\ c # "/"
                /\ PathParent(c) = Walk(IF IsAbsolute(dir) THEN "/" ELSE Cwd, Components(dir))
                /\ FsAll[c].kind \in {"file", "dir"}}

BaseName(c) == Components(c)[Len(Components(c))]

(* C9: in a path-mode result the entries after the optional ".." are exactly the
   files and directories right under the listing directory, each once, all
   directories before all files and each group ascending by lower-cased name; a
   directory scores BONUS_SCORE_FOLDER and a file the smaller
   BONUS_SCORE_ICON_NAME, so the scores never increase along the list. *)
C9_ListingOrderedDirsFirst ==
    \A i \in Searchers :
       HasListing(i) =>
          LET dir == ListingDir(LowerQuery(i))
              ch == Children(i)
              isdir(r) == IsDir(r.app.path)
          IN  /\ {ch[k].app.name : k \in DOMAIN ch} = {BaseName(c) : c \in ResolvableUnder(dir)}
              /\ Len(ch) = Cardinality(ResolvableUnder(dir))
              /\ \A k \in DOMAIN ch : ch[k].app.path = PathJoin(dir, ch[k].app.name)
              /\ \A a, b \in DOMAIN ch :
                    a < b =>
                       /\ ~(~isdir(ch[a]) /\ isdir(ch[b]))
                       /\ (isdir(ch[a]) = isdir(ch[b])) =>
                             ~StrLess(ToLowercase(ch[b].app.name), ToLowercase(ch[a].app.name))
              /\ \A k \in DOMAIN ch :
                    ch[k].score = IF isdir(ch[k]) THEN BONUS_SCORE_FOLDER ELSE BONUS_SCORE_ICON_NAME
              /\ BONUS_SCORE_ICON_NAME < BONUS_SCORE_FOLDER
              /\ \A k \in 1..(Len(srch[i].results) - 1) :
                    srch[i].results[k].score >= srch[i].results[k + 1].score

\* the listing of /etc when it holds two directories, two files and a socket, with
\* names whose byte order differs from their lower-cased order
C9_Witness ==
    /\ {"/etc/b", "/etc/Z", "/etc/a", "/etc/C", "/etc/sock"} \subseteq fs
    /\ \E i \in Searchers :
          /\ HasListing(i)
          /\ ListingDir(LowerQuery(i)) = "/etc/b/.."
          /\ Len(srch[i].results) = 5
          /\ srch[i].results[1].app.name = ".."

DesktopEntries == {n \in DOMAIN cache.map : EndsWith(cache.map[n].path, ".desktop")}

Min(a, b) == IF a < b THEN a ELSE b

(* C10: an empty-query search returns the desktop entries of the index by
   descending score, cut to max_results: each result is a desktop entry, and no
   desktop entry left out scores strictly higher than one that is returned. *)
C10_EmptyQueryTopDesktopEntries ==
    \A i \in Searchers :
       (Done(i) /\ LowerQuery(i) = "") =>
          LET rs == srch[i].results
              returned == {rs[k].app.name : k \in DOMAIN rs}
          IN  /\ \A k \in DOMAIN rs : EndsWith(rs[k].app.path, ".desktop")
              /\ Len(rs) = Min(srch[i].max, Cardinality(DesktopEntries))
              /\ \A k \in 1..(Len(rs) - 1) : rs[k].score >= rs[k + 1].score
              /\ \A n \in DesktopEntries \ returned :
                    \A k \in DOMAIN rs : calculate_bonus_score(cache.map[n]) <= rs[k].score

\* what the loop of a text search and the binary fallback push, before the sort
TextCandidates(i) ==
    LET q == LowerQuery(i)
        vals == Values(srch[i].snap)
        matched == TextScan(vals, q)
        binary == IF q \notin SeenNames(vals, q) THEN check_binary(q) ELSE {}
    IN  Range(matched) \cup binary

(* C11: the list an empty-query or text search returns is in non-increasing order
   of score, and a text search keeps the max_results candidates of highest
   score. *)
C11_ScoresNeverIncrease ==
    \A i \in Searchers :
       (Done(i) /\ ~IsPathQuery(LowerQuery(i))) =>
          LET rs == srch[i].results
          IN  /\ \A k \in 1..(Len(rs) - 1) : rs[k].score >= rs[k + 1].score
              /\ IsTextSearch(i) =>
                    /\ Range(rs) \subseteq TextCandidates(i)
                    /\ Len(rs) = Min(srch[i].max, Cardinality(TextCandidates(i)))
                    /\ \A c \in TextCandidates(i) \ Range(rs) :
                          \A k \in DOMAIN rs : c.score <= rs[k].score

\* a text search with more candidates than max_results = 2, whose two results differ
\* in score
C11_Witness ==
    \E i \in Searchers :
       /\ Done(i)
       /\ IsTextSearch(i)
       /\ srch[i].max = 2
       /\ Cardinality(TextCandidates(i)) >= 3
       /\ Len(srch[i].results) = 2
       /\ srch[i].results[1].score > srch[i].results[2].score

(* C12: the list a text search returns never holds two results whose lower-cased
   names are equal, whatever the index, one with names that differ in case only
   included. *)
C12_NoTwoResultsOfOneLowerName ==
    \A i \in Searchers :
       (Done(i) /\ IsTextSearch(i)) =>
          \A a, b \in DOMAIN srch[i].results :
             a # b => ToLowercase(srch[i].results[a].app.name)
                         # ToLowercase(srch[i].results[b].app.name)

\* the value of an i64 that fits the checker's integers
IntOf(x) == x[1] + x[2] * LimbBase

IsSmall(x) == x[2] = 0 /\ x[1] <= BigCount

(* C13: for every entry and launch counts a <= b over the whole range of u32, the
   score with launch_count = b is at least the score with launch_count = a, in
   empty-query, exact-match and fuzzy-match scoring, and no step overflows. *)
C13_ScoreMonotoneInLaunchCount ==
    calc.pc = "scored" =>
       /\ I64LessEq(calc.sa.v, calc.sb.v)
       /\ ~calc.sa.o /\ ~calc.sb.o
       /\ IsSmall(calc.b) =>
             IntOf(calc.sb.v) =
                (IF calc.mode = "empty" THEN 0
                 ELSE IF calc.mode = "exact" THEN BONUS_SCORE_BINARY ELSE calc.fuzzy)
                + calculate_bonus_score(ScoredEntry(IntOf(calc.b)))

\* launch counts on both sides of 2^31, the larger being u32::MAX, scored fuzzily
C13_Witness ==
    /\ calc.pc = "scored"
    /\ calc.mode = "fuzzy"
    /\ calc.fuzzy > 0
    /\ calc.a = <<LimbBase - 1, LimbBase \div 2 - 1>>
    /\ calc.b = <<LimbBase - 1, LimbBase - 1>>
    /\ calc.sa.v # calc.sb.v

(* C14: a path-mode search takes no lock on the index: while it runs it is not
   among the readers of the lock, and it can start while a rebuild holds the
   write lock. *)
C14_PathSearchTakesNoLock ==
    \A i \in Searchers :
       /\ (srch[i].pc = "reading" /\ IsPathQuery(LowerQuery(i))) => i \notin lock.readers
       /\ (srch[i].pc = "idle" /\ lock.writer) => ENABLED SearchStart(i, "/h", 1)

(* C19: two searches with the same query and the same max_results over indexes
   of equal contents, the same index or the one a rebuild made from the same
   entries, return the same entries in the same order. *)
C19_EqualIndexesEqualResults ==
    \A i, j \in Searchers :
       (/\ Done(i) /\ Done(j)
        /\ ~IsPathQuery(LowerQuery(i))
        /\ srch[i].query = srch[j].query
        /\ srch[i].max = srch[j].max
        /\ srch[i].snap.map = srch[j].snap.map) => srch[i].results = srch[j].results

(* C15: with no other writer and a heatmap file that can be written,
   save_heatmap(name, n) followed by load_heatmap() gives a mapping in which name
   maps to n, whatever the name, the count and the file before (missing,
   malformed or valid). *)
C15_SaveThenLoadHoldsCount ==
    (calc.pc = "reloaded" /\ calc.prior.writable) =>
       /\ calc.name \in DOMAIN calc.after
       /\ calc.after[calc.name] = calc.count

\* a name with a quote saved over a file that was cut short, and a name with a
\* backslash saved beside two entries already in the file
C15_Witness ==
    /\ calc.pc = "reloaded"
    /\ calc.prior.writable
    /\ \/ calc.name = "a\"b" /\ calc.prior.text = "{\"Files\":2," /\ calc.count = 999999999
       \/ calc.name = "c\\d" /\ Cardinality(DOMAIN calc.after) = 3

(* C16: load_heatmap never fails: from a missing, unreadable or malformed file it
   returns the empty mapping, and the rebuild that got it goes on and completes,
   giving every entry launch_count 0. *)
C16_FailedLoadSeedsZero ==
    ~heatmap.ok =>
       /\ load_heatmap(heatmap) = EmptyMap
       /\ rb.pc \in {"scan", "ready", "locked"} => rb.heat = EmptyMap
       /\ rb.pc = "scan" => ENABLED RebuildScan
       /\ hist.swaps > 0 => \A k \in DOMAIN cache.map : cache.map[k].launch_count = 0

\* a rebuild that could not load the heatmap has completed with three entries
C16_Witness ==
    /\ ~heatmap.ok
    /\ hist.swaps > 0
    /\ {"Files", "Hidden", "ls"} \subseteq DOMAIN cache.map

(* C17: recording a launch for an entry whose name is not in the index is a
   silent no-op: the launch leaves the index as it is and the save it spawns,
   if any, leaves the heatmap file as it is. *)
C17_StrayLaunchChangesNothing ==
    [][\A t \in SaveThreads :
          /\ (saves[t].pc = "none" /\ saves'[t].pc = "spawned" /\ saves'[t].stray) => cache' = cache
          /\ (saves[t].pc = "loaded" /\ saves[t].stray /\ saves'[t].pc = "done") => heatmap' = heatmap]_vars

(* C20: in one process, over launches, saves, heatmap read failures and
   rebuilds, the launch_count of an entry of the index never decreases while the
   entry stays in the index. *)
C20_IndexCountNeverDecreases ==
    [][\A n \in DOMAIN cache.map \cap DOMAIN cache'.map :
          cache'.map[n].launch_count >= cache.map[n].launch_count]_vars

(* C18: with an empty index, max_results >= 1 and /usr/bin/ls executable, a text
   search for "ls" returns exactly one result: a File entry named as the query
   whose command is /usr/bin/ls, followed by the remaining tokens of the query
   when there are any, and whose score is BONUS_SCORE_BINARY. *)
C18_BinaryFallbackOnEmptyIndex ==
    \A i \in Searchers :
       (/\ Done(i)
        /\ srch[i].snap.map = EmptyMap
        /\ srch[i].max >= 1
        /\ LowerQuery(i) \in {"ls", "ls -la"}
        /\ \E m \in Metadata("/usr/bin/ls") : m.x) =>
          /\ Len(srch[i].results) = 1
          /\ LET r == srch[i].results[1]
             IN  /\ r.app.entry_type = "File"
                 /\ r.app.name = LowerQuery(i)
                 /\ r.app.path = "/usr/bin/ls"
                 /\ r.app.exec = (IF LowerQuery(i) = "ls" THEN "/usr/bin/ls" ELSE "/usr/bin/ls -la")
                 /\ r.app.launch_count = 0
                 /\ r.score = BONUS_SCORE_BINARY

\* the search for "ls" over the empty index has finished with the one File entry
C18_Witness ==
    \E i \in Searchers :
       /\ Done(i)
       /\ cache.map = EmptyMap
       /\ srch[i].snap.map = EmptyMap
       /\ srch[i].max >= 1
       /\ srch[i].query = "ls"
       /\ Len(srch[i].results) = 1
       /\ srch[i].results[1].app.exec = "/usr/bin/ls"
       /\ srch[i].results[1].score = 3000

\* the loop over cache.values() of search i has read every value; the binary
\* fallback, the sort, the truncation and the send are still to come
PassOver(i) ==
    /\ srch[i].pc = "reading"
    /\ ~IsPathQuery(LowerQuery(i))
    /\ srch[i].pos >= Len(cache.order)

(* C21: a search holds the read lock of the index only for the pass that reads the
   entries: once the pass is over the search is no reader of the lock, and a rebuild
   that is ready to swap while every search in flight is past its pass can take
   the write lock. *)
C21_LockOnlyForThePass ==
    /\ \A i \in Searchers : PassOver(i) => i \notin lock.readers
    /\ (rb.pc = "ready" /\ \A i \in Searchers : srch[i].pc = "reading" => PassOver(i))
          => ENABLED RebuildLock

\* what a save in flight leaves enabled: the steps of search 1 and its own (every
\* state with a save in flight has a step, that of the save). The finishing step is
\* stated for the empty query; its guard does not depend on the query.
SaveDelaysNothing ==
    \A t \in InFlightSaves :
       /\ (srch[1].pc = "idle" /\ hist.swaps > 0 /\ CanRead(lock))
             => ENABLED SearchStart(1, "file", MaxResults)
       /\ (srch[1].pc = "reading" /\ srch[1].pos < Len(cache.order)) => ENABLED SearchRead(1)
       /\ (srch[1].pc = "reading" /\ srch[1].query = "" /\ srch[1].pos >= Len(cache.order))
             => ENABLED SearchFinish(1)
       /\ srch[1].pc = "done" => ENABLED Deliver(1)
       /\ saves[t].pc = "spawned" => ENABLED SaveLoad(t)
       /\ saves[t].pc = "loaded" => ENABLED SaveWrite(t)

\* the step that records a launch only spawns the thread, and no step of a save
\* thread touches the lock or the index
SaveStepsStayOff ==
    \A t \in SaveThreads :
       /\ (saves[t].pc = "none" /\ saves'[t].pc # "none")
             => (saves'[t].pc = "spawned" /\ heatmap' = heatmap)
       /\ saves'[t] # saves[t] => (lock' = lock /\ cache' = cache)

(* C22: the heatmap is saved off the interactive path: increment_launch_count
   returns with the save thread spawned and heatmap.json not yet touched, a search
   issued while a save is in flight starts, reads and completes without waiting for
   it, and no step of a save takes the lock of the index. *)
C22_SavesOffTheInteractivePath == [][SaveDelaysNothing /\ SaveStepsStayOff]_vars

\* a search issued after the launch has completed while the save of that launch has
\* not yet loaded the file
C22_Witness ==
    /\ Done(1)
    /\ srch[1].fresh
    /\ \E t \in SaveThreads : saves[t].pc = "spawned"

BothWritten == calc.pc = "race" /\ \A t \in RaceThreads : calc.th[t].pc = "written"

(* C23: two concurrent saves for distinct names race without a lock; however their
   steps interleave, once both have written, heatmap.json holds exactly the
   complete mapping of the thread that wrote last: the mapping that thread loaded
   with its own name and count inserted. *)
C23_LastWriterWins ==
    BothWritten =>
       LET w == calc.th[calc.last]
       IN  ParsedFile(calc.file) = [ok |-> TRUE, map |-> MapInsert(w.loaded, w.name, w.count)]

(* C24: a launch recorded after a rebuild has read the heatmap and before that
   rebuild swaps is not dropped: once the rebuild has swapped and the save of the
   launch has completed, the entry's launch_count in the index is at least the
   count the launch recorded. *)
C24_LaunchDuringRebuildIsKept ==
    \A t \in SaveThreads :
       (/\ saves[t].pc = "done"
        /\ hist.during[t] > 0
        /\ hist.swaps = hist.during[t]
        /\ saves[t].name \in DOMAIN cache.map)
          => cache.map[saves[t].name].launch_count >= saves[t].count

\* the first whitespace-separated token of the query of search i ("" when none)
FirstToken(i) ==
    LET parts == SplitWhitespace(LowerQuery(i))
    IN  IF parts = <<>> THEN "" ELSE parts[1]

(* C25: in a text search a binary-fallback entry is synthesized exactly when no entry
   of the index has a lower-cased name equal to the first token of the query and
   /usr/bin holds an executable of that name; with "ls" in the index the query
   "ls -la" synthesizes none. *)
C25_FallbackOnlyWithoutExactName ==
    \A i \in Searchers :
       (Done(i) /\ IsTextSearch(i) /\ FirstToken(i) # "") =>
          LET named == \E n \in DOMAIN srch[i].snap.map : ToLowercase(n) = FirstToken(i)
              executable == \E m \in Metadata("/usr/bin/" \o FirstToken(i)) : m.x
              synthesized == \E c \in TextCandidates(i) : c.app.entry_type = "File"
          IN  synthesized <=> (~named /\ executable)

(* C26: the score bands are strictly ordered whatever the launch counts: the score of
   an exact match is above BONUS_SCORE_BINARY, the score of the binary fallback,
   which is above BONUS_SCORE_FOLDER, the score of a listed directory, which is
   above BONUS_SCORE_ICON_NAME, the score of a listed file; and the total score of
   every fuzzy, non-exact match is below BONUS_SCORE_BINARY. *)
C26_BandsStrictlyOrdered ==
    /\ BONUS_SCORE_BINARY > BONUS_SCORE_FOLDER
    /\ BONUS_SCORE_FOLDER > BONUS_SCORE_ICON_NAME
    /\ \A i \in Searchers :
          (Done(i) /\ IsTextSearch(i)) =>
             \A c \in {x \in TextCandidates(i) : x.app.entry_type = "Application"} :
                IF IsExactResult(i, c) THEN c.score > BONUS_SCORE_BINARY
                ELSE c.score < BONUS_SCORE_BINARY

\* r is a result of search i for an entry of the index that matches only fuzzily
IsFuzzyResult(i, r) ==
    /\ r.app.entry_type = "Application"
    /\ ~IsExactResult(i, r)
    /\ fuzzy_match(ToLowercase(r.app.name), LowerQuery(i)) # {}

\* a and b have the same fuzzy score and the same icon bonus, and a was launched more
TieBrokenByLaunches(i, a, b) ==
    /\ IsFuzzyResult(i, a)
    /\ IsFuzzyResult(i, b)
    /\ fuzzy_match(ToLowercase(a.app.name), LowerQuery(i))
          = fuzzy_match(ToLowercase(b.app.name), LowerQuery(i))
    /\ (a.app.icon_name = "application-x-executable")
          <=> (b.app.icon_name = "application-x-executable")
    /\ a.app.launch_count > b.app.launch_count

(* C27: in a text search, of two entries that match fuzzily with the same fuzzy score
   and the same icon bonus, the one with the strictly higher launch_count comes
   first: whenever the other is returned, it is returned too, at an earlier
   position. *)
C27_LaunchCountBreaksFuzzyTie ==
    \A i \in Searchers :
       (Done(i) /\ IsTextSearch(i)) =>
          \A a \in TextCandidates(i) :
             \A m \in DOMAIN srch[i].results :
                TieBrokenByLaunches(i, a, srch[i].results[m]) =>
                   \E k \in 1..(m - 1) : srch[i].results[k] = a

\* the query "file" over Files (launched BigCount times) and the executable files
\* (never launched), which the loop met first: both returned, Files first
C27_Witness ==
    \E i \in Searchers :
       /\ Done(i)
       /\ srch[i].query = "file"
       /\ Len(srch[i].seen) = 2
       /\ srch[i].seen[1].name = "files"
       /\ \E k, m \in DOMAIN srch[i].results :
             /\ k < m
             /\ srch[i].results[k].app.name = "Files"
             /\ srch[i].results[k].app.launch_count = BigCount
             /\ srch[i].results[m].app.name = "files"
             /\ TieBrokenByLaunches(i, srch[i].results[k], srch[i].results[m])

(* C28: the output of a superseded search is discarded: in whatever order the
   searches complete, once every search issued has completed and been handled, the
   list displayed is that of the query issued last. *)
C28_LatestQueryIsDisplayed ==
    (hist.latest # {} /\ \A i \in Searchers : srch[i].pc = "idle") => ui.query \in hist.latest

\* the step is one of search i: it starts, reads a value, or finishes
SearchStep(i) == srch'[i].pc # srch[i].pc \/ srch'[i].pos # srch[i].pos

(* C29: search_applications only reads the index: no step of a search, in any mode
   and for any query, changes the mapping or its entries, and the only step that
   changes the index at all is the swap of a rebuild. *)
C29_SearchLeavesIndexAlone ==
    [][/\ \A i \in Searchers : SearchStep(i) => cache' = cache
       /\ cache' # cache => (rb.pc = "locked" /\ rb'.pc = "idle")]_vars

\* a text search and a path search have both run to their end over an index that
\* holds both entries, as it did when they began
C29_Witness ==
    \E i, j \in Searchers :
       /\ Done(i) /\ IsTextSearch(i) /\ srch[i].results # <<>>
       /\ Done(j) /\ IsPathQuery(LowerQuery(j))
       /\ DOMAIN cache.map = {"FileRoller", "file"}
       /\ cache = srch[i].snap

\* the count heatmap.json holds for a name, 0 when it holds none or cannot be read
StoredCount(name) == IF heatmap.ok /\ name \in DOMAIN heatmap.map THEN heatmap.map[name] ELSE 0

(* C30: after a rebuild every entry of the index, from a desktop file or from PATH,
   has the launch_count the heatmap held for its name when the rebuild read it, and
   0 when the heatmap held no such name; the map a rebuild is about to swap in
   already does. (Nothing writes heatmap.json in these behaviours, so what the
   rebuild read is what the file holds.) *)
C30_CountsSeededFromHeatmap ==
    /\ hist.swaps > 0 =>
          \A n \in DOMAIN cache.map :
             /\ cache.map[n].name = n
             /\ cache.map[n].launch_count = StoredCount(n)
    /\ rb.pc \in {"ready", "locked"} =>
          \A n \in DOMAIN rb.apps : rb.apps[n].launch_count = StoredCount(n)

\* a rebuild has swapped in a desktop entry with a stored count and an executable the
\* heatmap does not name
C30_Witness ==
    /\ hist.swaps > 0
    /\ heatmap.ok
    /\ DOMAIN heatmap.map = {"Files"}
    /\ {"Files", "ls"} \subseteq DOMAIN cache.map
    /\ EndsWith(cache.map["Files"].path, ".desktop")
    /\ cache.map["Files"].launch_count = 2
    /\ cache.map["ls"].launch_count = 0

(***************************************************************************)
(* Refreshes of a disk whose files cannot all be resolved                  *)
(***************************************************************************)

\* a root that is missing or unreadable is a root none of the files belongs to: the
\* read_dir of launcher.rs:88 fails and the loop goes on to the next root
RefreshDisks ==
    {[desktop |-> d, bins |-> {}] :
        d \in SUBSET {FilesDesktop, BrokenDesktop, NoNameDesktop, NotesFile}}

\* the state before App::new calls load_applications, with no heatmap file
InitRefresh ==
    /\ InitProcess
    /\ fs = DOMAIN FsAll
    /\ disk \in RefreshDisks
    /\ heatmap = [ok |-> FALSE, map |-> EmptyMap]
    /\ build = "stable"

NextRefresh ==
    \/ RebuildLoadHeatmap
    \/ RebuildScan
    \/ RebuildLock
    \/ RebuildSwap
    \/ SearchStart(1, "", MaxResults)
    \/ SearchRead(1)
    \/ SearchFinish(1)
    \/ Deliver(1)
    \/ Uninstall(FilesDesktop)

\* load_applications is one async function that runs to its end; the blocking search
\* task runs to its end; tokio's RwLock queues its waiters, so the writer is served
\* although readers keep arriving
SpecRefresh ==
    /\ InitRefresh
    /\ [][NextRefresh]_vars
    /\ WF_vars(RebuildScan)
    /\ SF_vars(RebuildLock)
    /\ WF_vars(RebuildSwap)
    /\ WF_vars(SearchRead(1))
    /\ WF_vars(SearchFinish(1))

\* the names a scan of the disk can resolve: the Name of every parsable .desktop file
\* that has one, and the file name of every executable
Resolvable(d) ==
    {CHOOSE n \in f.name : TRUE :
        f \in {g \in d.desktop : EndsWith(g.file, ".desktop") /\ g.parses /\ g.name # {}}}
    \cup {b.name : b \in d.bins}

(* C31: a rebuild always reaches its swap: a root that is missing, a desktop file that
   does not parse and a file without a Name contribute no entry and do not stop it;
   the scan resolves exactly the resolvable names, the swap installs exactly what the
   scan built, and a rebuild that resolved no entry leaves the index empty. *)
C31_RebuildNeverAborts ==
    /\ [][/\ (rb.pc = "scan" /\ rb'.pc = "ready") => DOMAIN rb'.apps = Resolvable(disk)
          /\ (rb.pc = "locked" /\ rb'.pc = "idle") => cache'.map = rb.apps]_vars
    /\ \A n \in 1..MaxRebuilds : (hist.started = n) ~> (hist.swaps = n)

\* the second rebuild found only files it cannot resolve and has emptied an index whose
\* entry is still in the list displayed
C31_Witness ==
    /\ hist.swaps = 2
    /\ rb.pc = "idle"
    /\ cache.map = EmptyMap
    /\ ui.results # <<>>
    /\ {BrokenDesktop, NoNameDesktop, NotesFile} \subseteq disk.desktop

(***************************************************************************)
(* Executables of PATH named like a desktop entry                          *)
(***************************************************************************)

\* an executable whose file name is the Name of files.desktop
ShadowBin == [dir |-> 1, name |-> "Files"]

ShadowDisks ==
    {[desktop |-> d, bins |-> b] :
        d \in SUBSET {FilesDesktop, FilesLocalDesktop, FileRollerDesktop},
        b \in SUBSET {ShadowBin, LsBin}}

\* the state before App::new calls load_applications
InitShadow ==
    /\ InitProcess
    /\ fs = DOMAIN FsAll
    /\ disk \in ShadowDisks
    /\ heatmap \in {[ok |-> FALSE, map |-> EmptyMap],
                    [ok |-> TRUE, map |-> MapInsert(EmptyMap, "Files", BigCount)]}
    /\ build \in Ties

\* rebuilds, and empty-query searches of the index they leave
NextShadow ==
    \/ RebuildLoadHeatmap
    \/ RebuildScan
    \/ RebuildLock
    \/ RebuildSwap
    \/ \E max_results \in {1, MaxResults} : SearchStart(1, "", max_results)
    \/ SearchRead(1)
    \/ SearchFinish(1)
    \/ Deliver(1)

SpecShadow == InitShadow /\ [][NextShadow]_vars

\* the executables of the disk whose file name is the Name a desktop file resolves to
Shadowing == {b \in disk.bins : b.name \in Resolvable([desktop |-> disk.desktop, bins |-> {}])}

(* C32: a rebuild inserts the executables of PATH after every desktop entry: when an
   executable's file name equals the Name of a desktop entry, the index, and the map
   about to be swapped in, hold the executable's entry under that name (its path is
   the executable's, not a .desktop file, and its description is empty), and no
   empty-query result, computed or displayed, has that name. *)
C32_ExecutableShadowsDesktopEntry ==
    \A b \in Shadowing :
       /\ rb.pc \in {"ready", "locked"} =>
             /\ b.name \in DOMAIN rb.apps
             /\ rb.apps[b.name].path \in {BinPath(c) : c \in disk.bins}
       /\ hist.swaps > 0 =>
             /\ b.name \in DOMAIN cache.map
             /\ cache.map[b.name].path \in {BinPath(c) : c \in disk.bins}
             /\ ~EndsWith(cache.map[b.name].path, ".desktop")
             /\ cache.map[b.name].description = ""
             /\ \A i \in Searchers :
                   (Done(i) /\ srch[i].query = "") =>
                      \A k \in DOMAIN srch[i].results : srch[i].results[k].app.name # b.name
             /\ ui.query = "" => \A k \in DOMAIN ui.results : ui.results[k].app.name # b.name

\* files.desktop and the executable Files are both on the disk, the index holds the
\* executable, and an empty-query search has listed the other desktop entry only
C32_Witness ==
    /\ hist.swaps > 0
    /\ FilesDesktop \in disk.desktop
    /\ ShadowBin \in disk.bins
    /\ cache.map["Files"].path = BinPath(ShadowBin)
    /\ Done(1)
    /\ srch[1].query = ""
    /\ srch[1].max = MaxResults
    /\ Len(srch[1].results) = 1
    /\ srch[1].results[1].app.name = "FileRoller"

(***************************************************************************)
(* The window: searches in every mode and activations of what they list    *)
(***************************************************************************)

\* what the user types; the texts an activated folder puts into the search entry are
\* in hist.latest
WindowQueries == {"", "/etc", "ls -la"}

\* /etc holds a folder with a lower-case name, one with an upper-case name and a file
WindowFs == {"/", "/etc", "/etc/b", "/etc/b/k", "/etc/Z", "/etc/a", "/usr", "/usr/bin", "/usr/bin/ls"}

\* the state after App::new with Files launched once in an earlier run
InitWindow ==
    /\ fs = WindowFs
    /\ disk = DefaultDisk
    /\ heatmap = ParsedFile([readable |-> TRUE, text |-> "{\"Files\":1}"])
    /\ build = "stable"
    /\ cache = HashMapOf(ScanAll(disk, heatmap.map, <<FilesDesktop>>, <<LsBin>>), <<"Files", "ls">>)
    /\ hist = [NoHistory EXCEPT !.seeded = [n \in {"Files", "ls"} |-> IF n = "Files" THEN 1 ELSE 0],
                                !.launches = [n \in {"Files", "ls"} |-> 0],
                                !.swaps = 1, !.started = 1]
    /\ lock = [readers |-> {}, writer |-> FALSE]
    /\ rb = IdleRebuild
    /\ srch = [i \in Searchers |-> IdleSearch]
    /\ saves = [t \in SaveThreads |-> NoSave]
    /\ ui = NoUi
    /\ calc = NoCalc

\* ui.rs:315-329: every change of the text of the search entry, typed or set by the
\* activation of a folder, issues a search for the text
NextWindow ==
    \/ \E query \in WindowQueries \cup hist.latest, max_results \in {1, MaxResults} :
          SearchStart(1, query, max_results)
    \/ SearchRead(1)
    \/ SearchFinish(1)
    \/ Deliver(1)
    \/ \E k \in 1..MaxResults : LaunchApplication(k)
    \/ \E k \in 1..MaxResults : OpenFile(k)
    \/ \E t \in SaveThreads : SaveLoad(t)
    \/ \E t \in SaveThreads : SaveWrite(t)

SpecWindow == InitWindow /\ [][NextWindow]_vars

(* C33: every update_results_list leaves the list model and app_data_store with the
   same entries in the same order, the first min(len(results), max_entries) results of
   the search: never more than max_entries, in any query mode, and nothing of the list
   shown before. *)
C33_ListsHoldTheFirstResults ==
    [][\A i \in Searchers :
          (Done(i) /\ srch'[i].pc = "idle") =>
             LET n == Min(Len(srch[i].results), srch[i].max)
             IN  /\ Len(ui'.results) = n
                 /\ Len(ui'.store) = n
                 /\ n <= srch[i].max
                 /\ \A k \in 1..n :
                       /\ ui'.results[k] = srch[i].results[k]
                       /\ ui'.store[k] = srch[i].results[k].app]_vars

\* the listing of /etc, three entries long, is displayed cut to one entry, after an
\* earlier list of which a File entry was activated
C33_Witness ==
    /\ ui.query = "/etc"
    /\ Len(ui.results) = 1
    /\ Len(ui.store) = 1
    /\ ui.store[1].path = "/etc/b"
    /\ hist.opened # {}

(* C34: only the activation of an Application entry records a launch: a save thread
   is spawned only by a step that activates an Application entry of the list, for
   that entry's name, and a step that activates a File entry, be it a folder, a file
   of a listing or the entry made up for a binary, spawns no save thread and leaves
   heatmap.json, every save thread and the index with its launch counts as they are. *)
C34_OnlyApplicationsRecordLaunches ==
    [][/\ \A t \in SaveThreads :
             (saves[t].pc = "none" /\ saves'[t].pc # "none") =>
                /\ ui'.act.kind = "Application"
                /\ \E k \in DOMAIN ui.results :
                      /\ ui.results[k].app.entry_type = "Application"
                      /\ ui.results[k].app.name = saves'[t].name
       /\ (hist'.opened # hist.opened \/ (ui'.act # ui.act /\ ui'.act.kind \in {"folder", "file"})) =>
             (saves' = saves /\ heatmap' = heatmap /\ cache' = cache
              /\ hist'.launches = hist.launches)]_vars

\* a folder, a file of a listing and the entry made up for "ls -la" have all been
\* activated, and so has an application, whose launch is the only one recorded
C34_Witness ==
    /\ hist.opened = {"folder", "file", "fallback"}
    /\ \E t \in SaveThreads : saves[t].pc = "done" /\ saves[t].name = "Files"
    /\ \A t \in SaveThreads : saves[t].pc # "none" => saves[t].name = "Files"
    /\ heatmap.map = MapInsert(EmptyMap, "Files", 2)

(* C35: the activation of a folder spawns no process and does not hide the window; it
   sets the text of the search entry to the folder's path followed by one '/', a path
   query, and the search for that text lists that folder: every result but ".." is an
   entry of the folder. An activation hides the window only when it spawned a process. *)
C35_FolderActivationListsTheFolder ==
    /\ ui.act.hid => ui.act.spawned
    /\ ui.act.kind = "folder" =>
          /\ ~ui.act.spawned
          /\ ~ui.act.hid
          /\ ~EndsWith(ui.act.path, "/")
          /\ ui.act.text = ui.act.path \o "/"
          /\ IsPathQuery(ui.act.text)
          /\ \A i \in Searchers :
                (Done(i) /\ srch[i].query = ui.act.text) =>
                   \A k \in DOMAIN srch[i].results :
                      \/ srch[i].results[k].app.name = ".."
                      \/ PathParent(srch[i].results[k].app.path) = {ui.act.path}

(***************************************************************************)
(* Launcher processes that start at the same time                          *)
(***************************************************************************)

\* the PIDs of the launcher processes that start
Launchers == {1, 2, 3}

\* app.rs:154: format!("instance-{}", pid)
InstanceName(pid) == "instance-" \o Numeral(pid)

\* what the runtime directory may hold when the processes start: the file of a
\* process that died without removing it, and a file whose name holds no PID
StaleNames == {"instance-9", "instance-xyz", "notes"}

\* app.rs:180-181: strip_prefix("instance-") and parse::<u32>() of the rest, which
\* takes digits after an optional '+'
InstancePid(filename) ==
    IF ~StartsWith(filename, "instance-") THEN [ok |-> FALSE, pid |-> 0]
    ELSE LET rest == SubSeq(filename, Len("instance-") + 1, Len(filename))
             digits == IF rest # "" /\ CharAt(rest, 1) = "+" THEN Tail(rest) ELSE rest
         IN  IF digits # "" /\ SkipDigits(digits, 1) = Len(digits) + 1 /\ Len(digits) <= 9
             THEN [ok |-> TRUE, pid |-> ValueOf(digits)]
             ELSE [ok |-> FALSE, pid |-> 0]

\* app.rs:194-196: /proc/<pid> exists
process_exists(pid) == pid \in Launchers /\ calc.proc[pid].pc \notin {"refused", "exited"}

\* the instance files of live processes in a directory
LiveInstances(dir) == {f \in dir : InstancePid(f).ok /\ process_exists(InstancePid(f).pid)}

\* the files cleanup_stale_instances removes of the entries it read
StaleOf(entries) == {f \in entries : InstancePid(f).ok /\ ~process_exists(InstancePid(f).pid)}

\* app.rs:143-147: the entries whose name starts with "instance-"
Instances(dir) == {f \in dir : StartsWith(f, "instance-")}

NewLauncher == [pc |-> "start", entries |-> {}, stale |-> {}, instances |-> {}, live |-> 0]

InitInstances ==
    /\ AtRest
    /\ \E dir \in SUBSET StaleNames :
          calc = [pc |-> "instances", dir |-> dir, proc |-> [p \in Launchers |-> NewLauncher]]

\* app.rs:176: the read_dir of cleanup_stale_instances; stale is history, the files
\* of dead PIDs the directory then held
CleanupRead(p) ==
    /\ calc.pc = "instances"
    /\ calc.proc[p].pc = "start"
    /\ calc' = [calc EXCEPT !.proc[p].pc = "cleaning", !.proc[p].entries = calc.dir,
                            !.proc[p].stale = StaleOf(calc.dir)]
    /\ UNCHANGED <<fs, disk, heatmap, cache, lock, rb, srch, saves, ui, build, hist>>

\* app.rs:177-188: the loop over the entries read
CleanupRemove(p) ==
    /\ calc.pc = "instances"
    /\ calc.proc[p].pc = "cleaning"
    /\ calc' = [calc EXCEPT !.proc[p].pc = "cleaned", !.dir = @ \ StaleOf(calc.proc[p].entries)]
    /\ UNCHANGED <<fs, disk, heatmap, cache, lock, rb, srch, saves, ui, build, hist>>

\* app.rs:143-147: the read_dir of can_create_instance
CountInstances(p) ==
    /\ calc.pc = "instances"
    /\ calc.proc[p].pc = "cleaned"
    /\ calc' = [calc EXCEPT !.proc[p].pc = "counted", !.proc[p].instances = Instances(calc.dir)]
    /\ UNCHANGED <<fs, disk, heatmap, cache, lock, rb, srch, saves, ui, build, hist>>

\* app.rs:149-151 and 28-40: two instances or more were read, the process exits
RefuseInstance(p) ==
    /\ calc.pc = "instances"
    /\ calc.proc[p].pc = "counted"
    /\ Cardinality(calc.proc[p].instances) >= 2
    /\ calc' = [calc EXCEPT !.proc[p].pc = "refused"]
    /\ UNCHANGED <<fs, disk, heatmap, cache, lock, rb, srch, saves, ui, build, hist>>

\* app.rs:153-172: File::create of the process's own file; live is history, the
\* number of instance files of live processes in the directory at the create
CreateInstance(p) ==
    /\ calc.pc = "instances"
    /\ calc.proc[p].pc = "counted"
    /\ Cardinality(calc.proc[p].instances) < 2
    /\ calc' = [calc EXCEPT !.proc[p].pc = "running", !.dir = @ \cup {InstanceName(p)},
                            !.proc[p].live = Cardinality(LiveInstances(calc.dir))]
    /\ UNCHANGED <<fs, disk, heatmap, cache, lock, rb, srch, saves, ui, build, hist>>

\* app.rs:112-119 and 166-169: the application quits, or Ctrl-C: the process removes
\* its file and ends
ExitInstance(p) ==
    /\ calc.pc = "instances"
    /\ calc.proc[p].pc = "running"
    /\ calc' = [calc EXCEPT !.proc[p].pc = "exited", !.dir = @ \ {InstanceName(p)}]
    /\ UNCHANGED <<fs, disk, heatmap, cache, lock, rb, srch, saves, ui, build, hist>>

NextInstances ==
    \/ \E p \in Launchers : CleanupRead(p)
    \/ \E p \in Launchers : CleanupRemove(p)
    \/ \E p \in Launchers : CountInstances(p)
    \/ \E p \in Launchers : RefuseInstance(p)
    \/ \E p \in Launchers : CreateInstance(p)
    \/ \E p \in Launchers : ExitInstance(p)

SpecInstances == InitInstances /\ [][NextInstances]_vars

(* C36: under every interleaving of launcher processes that start together, a
   process creates its instance file only when fewer than two instance files of live
   processes exist at that moment, so the runtime directory never holds more than two
   instance files of live processes; the files of the PIDs that were dead when a
   process cleaned up are gone from what it counts; and a process that was refused
   has created no file. *)
C36_AtMostTwoLiveInstances ==
    calc.pc = "instances" =>
       /\ Cardinality(LiveInstances(calc.dir)) <= 2
       /\ \A p \in Launchers :
             /\ calc.proc[p].pc = "running" => calc.proc[p].live < 2
             /\ calc.proc[p].pc \in {"counted", "running", "refused", "exited"} =>
                   calc.proc[p].instances \cap calc.proc[p].stale = {}
             /\ calc.proc[p].pc = "refused" => InstanceName(p) \notin calc.dir

(***************************************************************************)
(* Config hot-reload: the watcher thread and the UI timer                  *)
(***************************************************************************)

\* the contents config.json takes, each a whole configuration in the form
\* Config::load writes it, so that the load of one writes nothing back
ConfigContents == {"dark", "light", "wide"}

\* the number of times config.json is rewritten while the launcher runs
MaxEdits == 3

\* time passes in ticks of 50 ms, the length of the watcher's sleep
\* (config.rs:531); the debounce of 250 ms (config.rs:530, app.rs:63) is 5 ticks
DebounceTicks == 5

\* an Instant as its age in ticks; ages past the debounce are all alike
Older(age) == IF age > DebounceTicks THEN age ELSE age + 1

\* config.rs:530 and app.rs:63: now.duration_since(last_update).as_millis() > 250
Debounced(age) == age > DebounceTicks

\* the state some time after App::new (app.rs:51-58) and the first activation: the
\* watcher has read the file and its thread waits in recv, a window exists, and
\* both last_update instants are more than 250 ms old
InitReload ==
    /\ AtRest
    /\ \E content \in ConfigContents :
          calc = [pc |-> "reload", file |-> content, edits |-> 0,
                  events |-> 0,        \* file-system events the watcher has not received
                  notes |-> 0,         \* notifications the UI timer has not received
                  w |-> [pc |-> "recv", last_content |-> content,
                         last_update |-> DebounceTicks + 1, now |-> 0],
                  u |-> [last_config |-> content, last_update |-> DebounceTicks + 1],
                  window |-> content]  \* the configuration the window shows

\* 50 ms pass
Tick ==
    /\ calc.pc = "reload"
    /\ calc' = [calc EXCEPT !.w.last_update = Older(@), !.w.now = Older(@),
                            !.u.last_update = Older(@)]
    /\ UNCHANGED <<fs, disk, heatmap, cache, lock, rb, srch, saves, ui, build, hist>>

\* the user saves config.json with another content; the directory watch
\* (config.rs:518-523) queues an event
EditConfig(content) ==
    /\ calc.pc = "reload"
    /\ calc.edits < MaxEdits
    /\ content # calc.file
    /\ calc' = [calc EXCEPT !.file = content, !.edits = @ + 1, !.events = @ + 1]
    /\ UNCHANGED <<fs, disk, heatmap, cache, lock, rb, srch, saves, ui, build, hist>>

\* config.rs:526-531: rx.recv() and the debounce test; an event received within
\* 250 ms of last_update is dropped, another one starts the sleep
WatcherRecv ==
    /\ calc.pc = "reload"
    /\ calc.w.pc = "recv"
    /\ calc.events > 0
    /\ calc' = [calc EXCEPT !.events = @ - 1,
                            !.w.now = 0,
                            !.w.pc = IF Debounced(calc.w.last_update) THEN "sleep" ELSE "recv"]
    /\ UNCHANGED <<fs, disk, heatmap, cache, lock, rb, srch, saves, ui, build, hist>>

\* config.rs:533-550: after the sleep, read_to_string and the comparison with
\* last_content; a changed content is kept, last_update becomes the now taken
\* before the sleep, and the callback sends a notification (app.rs:52-54)
WatcherRead ==
    /\ calc.pc = "reload"
    /\ calc.w.pc = "sleep"
    /\ calc.w.now > 0
    /\ IF calc.w.last_content # calc.file
       THEN calc' = [calc EXCEPT !.w.pc = "recv", !.w.last_content = calc.file,
                                 !.w.last_update = calc.w.now, !.notes = @ + 1]
       ELSE calc' = [calc EXCEPT !.w.pc = "recv"]
    /\ UNCHANGED <<fs, disk, heatmap, cache, lock, rb, srch, saves, ui, build, hist>>

\* app.rs:60-83: a run of the timer that finds a notification: try_recv takes it,
\* then the debounce test, Config::load, the comparison with last_config and
\* update_window_config
UiTimer ==
    /\ calc.pc = "reload"
    /\ calc.notes > 0
    /\ IF Debounced(calc.u.last_update) /\ calc.file # calc.u.last_config
       THEN calc' = [calc EXCEPT !.notes = @ - 1, !.window = calc.file,
                                 !.u.last_config = calc.file, !.u.last_update = 0]
       ELSE calc' = [calc EXCEPT !.notes = @ - 1]
    /\ UNCHANGED <<fs, disk, heatmap, cache, lock, rb, srch, saves, ui, build, hist>>

NextReload ==
    \/ Tick
    \/ \E content \in ConfigContents : EditConfig(content)
    \/ WatcherRecv
    \/ WatcherRead
    \/ UiTimer

\* time passes, the watcher thread runs and the GLib timer fires
SpecReload ==
    /\ InitReload
    /\ [][NextReload]_vars
    /\ WF_vars(Tick)
    /\ WF_vars(WatcherRecv)
    /\ WF_vars(WatcherRead)
    /\ WF_vars(UiTimer)

(* C37: config hot-reload loses no change: config.json is rewritten a bounded number
   of times while a window exists, and from some moment on the window shows the
   configuration the file holds; neither debounce drops the last change for good. *)
C37_ReloadLosesNoChange == <>[](calc.pc = "reload" => calc.window = calc.file)

(***************************************************************************)
(* search_applications from the call to the return                         *)
(***************************************************************************)

\* search.rs:23-27 and ui.rs:315-324: a keystroke calls search_applications, which
\* makes the channel and spawns the blocking task
SearchCall(i, query, max_results) ==
    /\ srch[i].pc = "idle"
    /\ hist.swaps > 0
    /\ srch' = [srch EXCEPT ![i] = [IdleSearch EXCEPT !.pc = "called", !.query = query,
                                                      !.max = max_results, !.fresh = TRUE]]
    /\ hist' = [hist EXCEPT !.latest = {query}]
    /\ UNCHANGED <<fs, disk, heatmap, cache, lock, rb, saves, ui, build, calc>>

\* search.rs:28: APP_CACHE.blocking_read() returns once no writer holds the lock
SearchAcquire(i) ==
    /\ srch[i].pc = "called"
    /\ CanRead(lock)
    /\ lock' = [lock EXCEPT !.readers = @ \cup {i}]
    /\ srch' = [srch EXCEPT ![i].pc = "reading", ![i].snap = cache]
    /\ UNCHANGED <<fs, disk, heatmap, cache, rb, saves, ui, build, hist, calc>>

\* a panic that leaves the read guard behind
SearchPanicHolding(i) ==
    /\ srch[i].pc = "reading"
    /\ srch' = [srch EXCEPT ![i].pc = "failed", ![i].results = <<>>]
    /\ UNCHANGED <<fs, disk, heatmap, cache, lock, rb, saves, ui, build, hist, calc>>

\* search.rs:27-92: the closure panics before tx.send; the unwinding drops the read
\* guard and tx, and rx.await yields Err("Failed to receive results") (search.rs:94-95)
SearchPanic(i) ==
    /\ srch[i].pc = "reading"
    /\ srch' = [srch EXCEPT ![i].pc = "failed", ![i].results = <<>>]
    /\ lock' = [lock EXCEPT !.readers = @ \ {i}]
    /\ UNCHANGED <<fs, disk, heatmap, cache, rb, saves, ui, build, hist, calc>>

\* ui.rs:323-328: unwrap_or_default() turns the Err into an empty Vec, and
\* update_results_list empties both lists
DeliverError(i) ==
    /\ srch[i].pc = "failed"
    /\ ui' = [ui EXCEPT !.query = srch[i].query, !.results = <<>>, !.store = <<>>,
                        !.fresh = srch[i].fresh]
    /\ srch' = [srch EXCEPT ![i] = IdleSearch]
    /\ UNCHANGED <<fs, disk, heatmap, cache, lock, rb, saves, build, hist, calc>>

InitReturn == InitChange

NextReturn ==
    \/ RebuildLoadHeatmap
    \/ RebuildScan
    \/ RebuildLock
    \/ RebuildSwap
    \/ \E i \in Searchers, max_results \in {1, MaxResults} : SearchCall(i, "", max_results)
    \/ \E i \in Searchers : SearchAcquire(i)
    \/ \E i \in Searchers : SearchRead(i)
    \/ \E i \in Searchers : SearchFinish(i)
    \/ \E i \in Searchers : SearchPanic(i)
    \/ \E i \in Searchers : Deliver(i)
    \/ \E i \in Searchers : DeliverError(i)

\* the writer gives the lock back (launcher.rs:190-192), the lock queues its waiters,
\* so that a reader that keeps asking gets it, the blocking pool runs its tasks and
\* the main loop runs the handler's future
SpecReturn ==
    /\ InitReturn
    /\ [][NextReturn]_vars
    /\ WF_vars(RebuildSwap)
    /\ \A i \in Searchers :
          /\ SF_vars(SearchAcquire(i))
          /\ WF_vars(SearchRead(i))
          /\ WF_vars(SearchFinish(i))
          /\ WF_vars(Deliver(i))
          /\ WF_vars(DeliverError(i))

\* the call has returned: Ok(results) or Err
Returned(i) == srch[i].pc \in {"done", "failed"}

(* C38: every call of search_applications returns, the writer giving the lock back:
   a call made leads to Ok(results), the results of the values read, or to Err when
   the worker ended without sending, and then to the handler's update of the list;
   the worker holds the read lock exactly while it reads, so the lock is released in
   both cases; and the list shown after an Err is empty. *)
C38_EverySearchReturns ==
    /\ \A i \in Searchers : (srch[i].pc = "called") ~> Returned(i)
    /\ \A i \in Searchers : Returned(i) ~> (srch[i].pc = "idle")
    /\ [](\A i \in Searchers : (i \in lock.readers) <=> (srch[i].pc = "reading"))
    /\ [][\A i \in Searchers :
             /\ (srch[i].pc = "failed" /\ srch'[i].pc = "idle") =>
                   (ui'.results = <<>> /\ ui'.store = <<>>)
             /\ (srch[i].pc = "reading" /\ srch'[i].pc = "done") =>
                   \E names \in ReadDirOrders("") :
                      srch'[i].results = SearchOver(srch[i].seen, srch[i].query, srch[i].max,
                                                    names, build)]_vars

\* an Err has been shown: the list is empty for a call made after the last swap,
\* with desktop entries in the index, while the other call, which waited for the
\* rebuild's swap, has returned Ok with results
C38_Witness ==
    /\ hist.swaps = 2
    /\ ui.fresh
    /\ ui.results = <<>>
    /\ \E n \in DOMAIN cache.map : EndsWith(cache.map[n].path, ".desktop")
    /\ \E i \in Searchers : srch[i].pc = "done" /\ srch[i].results # <<>>
    /\ lock.readers = {}

(***************************************************************************)
(* The selection of the list view                                          *)
(***************************************************************************)

\* the largest number of rows the list is given
MaxItems == 4

\* a u32 as two 16-bit halves
HalfBase == 65536

U32Of(x) == [hi |-> x \div HalfBase, lo |-> x % HalfBase]

U32Less(a, b) == a.hi < b.hi \/ (a.hi = b.hi /\ a.lo < b.lo)

\* a + 1 and a - 1 in u32 arithmetic
U32Inc(a) ==
    IF a.lo < HalfBase - 1 THEN [a EXCEPT !.lo = @ + 1]
    ELSE [hi |-> (a.hi + 1) % HalfBase, lo |-> 0]

U32Dec(a) ==
    IF a.lo > 0 THEN [a EXCEPT !.lo = @ - 1]
    ELSE [hi |-> (a.hi + HalfBase - 1) % HalfBase, lo |-> HalfBase - 1]

\* what SingleSelection::selected() returns when no row is selected: G_MAXUINT
GTK_INVALID_LIST_POSITION == U32Dec(U32Of(0))

\* SingleSelection::set_selected on a model of n_items rows: a position that has no
\* item unselects
set_selected(n_items, position) ==
    IF U32Less(position, n_items) THEN position ELSE GTK_INVALID_LIST_POSITION

\* a select_next that goes round to the first row after the last
select_next_wrapping(n_items, current_pos) ==
    IF n_items = U32Of(0) THEN current_pos
    ELSE IF U32Less(current_pos, U32Dec(n_items))
    THEN set_selected(n_items, U32Inc(current_pos))
    ELSE set_selected(n_items, U32Of(0))

\* ui.rs:523-538: the selected position after select_next
select_next(n_items, current_pos) ==
    IF n_items = U32Of(0) THEN current_pos
    ELSE IF U32Less(current_pos, U32Dec(n_items))
    THEN set_selected(n_items, U32Inc(current_pos))
    ELSE current_pos

\* ui.rs:540-555: the selected position after select_previous
select_previous(n_items, current_pos) ==
    IF n_items = U32Of(0) THEN current_pos
    ELSE IF U32Less(U32Of(0), current_pos)
    THEN set_selected(n_items, U32Dec(current_pos))
    ELSE current_pos

\* the SingleSelection of ui.rs:66 (autoselect on, can-unselect off) over the empty
\* ListStore; op and before are history: the last call and the position selected
\* before it, moves the number of calls since the list was filled
InitSelect ==
    /\ AtRest
    /\ calc = [pc |-> "select", n_items |-> U32Of(0), selected |-> GTK_INVALID_LIST_POSITION,
               op |-> "new", before |-> GTK_INVALID_LIST_POSITION, moves |-> 0]

\* ui.rs:501-518: remove_all leaves nothing selected, and extend_from_slice on the
\* empty model makes autoselect select the first row
FillList(n) ==
    /\ calc.pc = "select"
    /\ calc' = [calc EXCEPT !.n_items = U32Of(n),
                            !.selected = IF n = 0 THEN GTK_INVALID_LIST_POSITION ELSE U32Of(0),
                            !.op = "fill", !.before = calc.selected, !.moves = 0]
    /\ UNCHANGED <<fs, disk, heatmap, cache, lock, rb, srch, saves, ui, build, hist>>

\* ui.rs:292 and 369: the down key
SelectNext ==
    /\ calc.pc = "select"
    /\ calc.moves < 2 * MaxItems
    /\ calc' = [calc EXCEPT !.selected = select_next(calc.n_items, calc.selected),
                            !.op = "next", !.before = calc.selected, !.moves = @ + 1]
    /\ UNCHANGED <<fs, disk, heatmap, cache, lock, rb, srch, saves, ui, build, hist>>

\* ui.rs:288 and 366: the up key
SelectPrevious ==
    /\ calc.pc = "select"
    /\ calc.moves < 2 * MaxItems
    /\ calc' = [calc EXCEPT !.selected = select_previous(calc.n_items, calc.selected),
                            !.op = "previous", !.before = calc.selected, !.moves = @ + 1]
    /\ UNCHANGED <<fs, disk, heatmap, cache, lock, rb, srch, saves, ui, build, hist>>

NextSelect ==
    \/ \E n \in 0..MaxItems : FillList(n)
    \/ SelectNext
    \/ SelectPrevious

SpecSelect == InitSelect /\ [][NextSelect]_vars

(* C39: select_next and select_previous keep the selection inside the list: with
   n > 0 rows the selected position is in 0..n-1; select_next on the last row and
   select_previous on the first change nothing, every other call moves the selection
   by exactly one; and with no rows both calls change nothing. *)
C39_SelectionStaysInsideTheList ==
    calc.pc = "select" =>
       LET n == calc.n_items.lo
           none == calc.n_items = U32Of(0)
       IN  /\ calc.n_items.hi = 0
           /\ ~none => calc.selected \in {U32Of(k) : k \in 0..(n - 1)}
           /\ none => calc.selected = GTK_INVALID_LIST_POSITION
           /\ calc.op = "next" =>
                 calc.selected = IF ~none /\ calc.before # U32Of(n - 1)
                                 THEN U32Of(calc.before.lo + 1) ELSE calc.before
           /\ calc.op = "previous" =>
                 calc.selected = IF ~none /\ calc.before # U32Of(0)
                                 THEN U32Of(calc.before.lo - 1) ELSE calc.before

\* the down key was pressed on the last of the rows and left the selection there,
\* after calls that had moved it down from the first row
C39_Witness ==
    /\ calc.pc = "select"
    /\ calc.n_items = U32Of(MaxItems)
    /\ calc.op = "next"
    /\ calc.before = U32Of(MaxItems - 1)
    /\ calc.selected = U32Of(MaxItems - 1)
    /\ calc.moves = MaxItems

(***************************************************************************)
(* merge_json and its depth counter                                        *)
(***************************************************************************)

\* a serde_json::Value: its type, the text of a scalar, the members of an object
JsonNull == [t |-> "null", v |-> "", m |-> EmptyMap]

JsonBool(v) == [t |-> "bool", v |-> v, m |-> EmptyMap]

JsonNumber(v) == [t |-> "number", v |-> v, m |-> EmptyMap]

JsonString(v) == [t |-> "string", v |-> v, m |-> EmptyMap]

JsonArray == [t |-> "array", v |-> "[]", m |-> EmptyMap]

JsonObject(m) == [t |-> "object", v |-> "", m |-> m]

\* config.rs:577
MAX_DEPTH == 10

\* the number of times Config::load runs
MaxLoads == 3

\* CURRENT_DEPTH is an AtomicUsize: fetch_sub at 0 wraps to usize::MAX. Every value
\* above MAX_DEPTH passes the test depth >= MAX_DEPTH alike, and MAX_DEPTH + 1 stands
\* for them all.
FetchAdd(depth) == IF depth > MAX_DEPTH THEN depth ELSE depth + 1

FetchSubNot(depth) == depth

FetchSub(depth) == IF depth = 0 \/ depth > MAX_DEPTH THEN MAX_DEPTH + 1 ELSE depth - 1

\* the keys of a serde_json::Map in the order it iterates: sorted
KeysOf(m) ==
    CHOOSE keys \in Perms(DOMAIN m) :
       \A i \in 1..(Len(keys) - 1) : StrLess(keys[i], keys[i + 1])

\* config.rs:563-624: the merged value and CURRENT_DEPTH after the call; MergeKeys is
\* the loop over the schema's members (587-617)
RECURSIVE merge_json(_, _, _, _)
RECURSIVE MergeKeys(_, _, _, _, _, _)
merge_json(existing, default, schema, depth) ==
    IF existing.t = "object" /\ default.t = "object"
    THEN IF schema.t # "object" THEN [val |-> default, depth |-> depth]
         ELSE IF depth >= MAX_DEPTH THEN [val |-> default, depth |-> 0]
         ELSE LET looped == MergeKeys(KeysOf(schema.m), existing.m, default.m, schema.m,
                                      EmptyMap, FetchAdd(depth))
              IN  [val |-> JsonObject(looped.val), depth |-> FetchSub(looped.depth)]
    ELSE [val |-> default, depth |-> depth]

MergeKeys(keys, existing_obj, default_obj, schema_obj, result, depth) ==
    IF keys = <<>> THEN [val |-> result, depth |-> depth]
    ELSE LET key == Head(keys)
             schema_val == schema_obj[key]
             defaulted == IF key \in DOMAIN default_obj
                          THEN MapInsert(result, key, default_obj[key]) ELSE result
         IN  IF key \in DOMAIN existing_obj
             THEN LET existing_val == existing_obj[key]
                  IN  IF schema_val.t = "object" /\ existing_val.t = "object"
                      THEN LET merged == merge_json(existing_val,
                                                    IF key \in DOMAIN default_obj
                                                    THEN default_obj[key] ELSE JsonNull,
                                                    schema_val, depth)
                           IN  MergeKeys(Tail(keys), existing_obj, default_obj, schema_obj,
                                         MapInsert(result, key, merged.val), merged.depth)
                      ELSE IF schema_val.t = existing_val.t
                      THEN MergeKeys(Tail(keys), existing_obj, default_obj, schema_obj,
                                     MapInsert(result, key, existing_val), depth)
                      ELSE MergeKeys(Tail(keys), existing_obj, default_obj, schema_obj,
                                     defaulted, depth)
             ELSE MergeKeys(Tail(keys), existing_obj, default_obj, schema_obj, defaulted, depth)

\* serde_json::to_value(Config::default()) cut down to one member of each type and
\* each level of nesting the configuration has (config.rs:148-151, 169-185, 212-221)
DefaultJson ==
    JsonObject(MapInsert(MapInsert(EmptyMap,
        "debug", JsonObject(MapInsert(EmptyMap, "enable_logging", JsonBool("false")))),
        "window", JsonObject(MapInsert(MapInsert(EmptyMap,
            "custom_navigate_keys", JsonObject(MapInsert(EmptyMap, "up", JsonString("k")))),
            "width", JsonNumber("600")))))

\* a value of the same type with another content
Other(default) ==
    IF default.t = "bool" THEN JsonBool("true")
    ELSE IF default.t = "number" THEN JsonNumber("800.5")
    ELSE JsonString("j")

\* values of the other types
WrongTypes(default) ==
    {v \in {JsonNull, JsonBool("true"), JsonNumber("7"), JsonString("x"), JsonArray,
            JsonObject(EmptyMap)} : v.t # default.t}

\* what a user's config.json may hold where the default holds default: members
\* missing, members of another type, members the default does not know
RECURSIVE Variants(_)
RECURSIVE MemberVariants(_, _)
Variants(default) ==
    IF default.t # "object" THEN {default, Other(default)} \cup WrongTypes(default)
    ELSE LET known == MemberVariants(KeysOf(default.m), default.m)
         IN  {JsonObject(f) : f \in known}
             \cup {JsonObject(MapInsert(f, "extra", JsonString("x"))) : f \in known}
             \cup WrongTypes(default)

\* the members a user's object may hold of the keys given
MemberVariants(keys, default_obj) ==
    IF keys = <<>> THEN {EmptyMap}
    ELSE LET rest == MemberVariants(Tail(keys), default_obj)
             values == Variants(default_obj[Head(keys)])
         IN  rest \cup {MapInsert(f, Head(keys), v) : f \in rest, v \in values}

\* what the claim says the merge is
RECURSIVE Kept(_, _)
Kept(existing, default) ==
    IF existing.t # default.t THEN default
    ELSE IF default.t # "object" THEN existing
    ELSE JsonObject([k \in DOMAIN default.m |->
                        IF k \in DOMAIN existing.m THEN Kept(existing.m[k], default.m[k])
                        ELSE default.m[k]])

\* value has exactly the keys of default at every level, with members of its types
RECURSIVE SameKeys(_, _)
SameKeys(value, default) ==
    /\ value.t = default.t
    /\ default.t = "object" =>
          /\ DOMAIN value.m = DOMAIN default.m
          /\ \A k \in DOMAIN default.m : SameKeys(value.m[k], default.m[k])

\* files the user replaces config.json with between two loads
EditedFiles ==
    {JsonArray,
     JsonObject(MapInsert(EmptyMap, "window", JsonObject(MapInsert(MapInsert(EmptyMap,
         "width", JsonString("wide")),
         "custom_navigate_keys", JsonObject(MapInsert(MapInsert(EmptyMap,
             "up", JsonString("j")), "left", JsonString("h"))))))),
     JsonObject(MapInsert(MapInsert(EmptyMap, "debug", JsonBool("true")), "theme", JsonNull))}

\* the process before its first Config::load; from and merged are history: the value
\* the last load read and what merge_json made of it
InitMerge ==
    /\ AtRest
    /\ \E existing \in Variants(DefaultJson) :
          calc = [pc |-> "merge", file |-> existing, CURRENT_DEPTH |-> 0, loads |-> 0,
                  from |-> JsonNull, merged |-> JsonNull]

\* config.rs:262-297: Config::load parses the file, merges it with the default and
\* writes the merged value back
ConfigLoad ==
    /\ calc.pc = "merge"
    /\ calc.loads < MaxLoads
    /\ LET r == merge_json(calc.file, DefaultJson, DefaultJson, calc.CURRENT_DEPTH)
       IN  calc' = [calc EXCEPT !.file = r.val, !.CURRENT_DEPTH = r.depth, !.loads = @ + 1,
                                !.from = calc.file, !.merged = r.val]
    /\ UNCHANGED <<fs, disk, heatmap, cache, lock, rb, srch, saves, ui, build, hist>>

\* the user replaces config.json
ReplaceConfig(existing) ==
    /\ calc.pc = "merge"
    /\ calc.loads > 0
    /\ calc.file # existing
    /\ calc' = [calc EXCEPT !.file = existing]
    /\ UNCHANGED <<fs, disk, heatmap, cache, lock, rb, srch, saves, ui, build, hist>>

NextMerge ==
    \/ ConfigLoad
    \/ \E existing \in EditedFiles : ReplaceConfig(existing)

SpecMerge == InitMerge /\ [][NextMerge]_vars

(* C40: merge_json with the default as schema returns an object with exactly the
   keys of the default at every level: an existing member is kept if and only if its
   type is the default's, level by level in nested objects, the default's member is
   used otherwise, and members the default does not know are dropped; CURRENT_DEPTH
   is 0 after every top-level call, so that no later merge is cut off. *)
C40_MergeKeepsTheDefaultsShape ==
    calc.pc = "merge" =>
       /\ calc.CURRENT_DEPTH = 0
       /\ calc.loads > 0 =>
             /\ SameKeys(calc.merged, DefaultJson)
             /\ calc.merged = Kept(calc.from, DefaultJson)

\* the last of the loads merged a file with a member of a wrong type beside a nested
\* object with a member kept and a member unknown to the default
C40_Witness ==
    /\ calc.pc = "merge"
    /\ calc.loads = MaxLoads
    /\ calc.from.t = "object"
    /\ "window" \in DOMAIN calc.from.m
    /\ calc.from.m["window"].t = "object"
    /\ calc.from.m["window"].m["width"] = JsonString("wide")
    /\ "left" \in DOMAIN calc.from.m["window"].m["custom_navigate_keys"].m
    /\ calc.merged.m["window"].m["width"] = JsonNumber("600")
    /\ calc.merged.m["window"].m["custom_navigate_keys"].m = MapInsert(EmptyMap, "up", JsonString("j"))
    /\ calc.merged.m["debug"] = DefaultJson.m["debug"]

====
